---------------------------- MODULE Spec2Model ----------------------------
(***************************************************************************)
(* Verification model of codex-proxy (dvcrn/codex-proxy).                  *)
(*                                                                         *)
(*   SpecRewrite : RewriteSSEStreamWithCallback + SSETransformer.Transform *)
(*                 (internal/server/transform.go)                          *)
(*   SpecPass    : PassThroughSSEStream (internal/server/transform.go)     *)
(*   SpecRetry   : chat/responses handler, makeChatGPTRequestWithRetry,    *)
(*                 writeResponse (internal/server/server.go) over the      *)
(*                 OAuthFetcher (package auth) and its credential store    *)
(***************************************************************************)
EXTENDS Integers, Sequences, FiniteSets, TLC

\* ------------------------------------------------------------------ bounds
\* lines the upstream sends before it closes (or the read fails)
MaxLines == 5
\* consecutive data: lines the upstream puts into one event
MaxDataLines == 2

\* token pairs the OAuth server issues
MaxRefreshes == 2
\* POST /admin/credentials calls
MaxAdmin == 1
\* clock advances
MaxTicks == 1

Min(a, b) == IF a < b THEN a ELSE b

\* ------------------------------------------------- upstream SSE payloads
\* A data: payload is a token.  tok is "[DONE]", " " (whitespace only),
\* "" (empty), "{oops" (not JSON) or "json" (a JSON object with the fields
\* the transformer inspects; absent string fields are "", absent
\* output_index is -1).
Tok(tk) ==
    [tok |-> tk, type |-> "", oi |-> -1, itype |-> "", iid |-> "",
     callid |-> "", name |-> "", text |-> "", object |-> ""]

J(ty, o, ity, id, cid, nm, tx, obj) ==
    [tok |-> "json", type |-> ty, oi |-> o, itype |-> ity, iid |-> id,
     callid |-> cid, name |-> nm, text |-> tx, object |-> obj]

DoneP  == Tok("[DONE]")
WsP    == Tok(" ")
EmptyP == Tok("")
BadP   == Tok("{oops")

CreatedP   == J("response.created", -1, "", "resp_1", "", "", "", "")
TextP      == J("response.output_text.delta", -1, "", "", "", "", "x", "")
ReasonP    == J("response.reasoning_summary_text.delta", 0, "", "", "", "", "x", "")
ReasonLateP == J("response.reasoning_summary_text.delta", 1, "", "", "", "", "x", "")
ReasonNoIndexP == J("response.reasoning_summary_text.delta", -1, "", "", "", "", "x", "")
ReasonPartP == J("response.reasoning_summary_part.added", 0, "", "", "", "", "x", "")
ReasonNoTextP == J("response.reasoning_summary_text.delta", 0, "", "", "", "", "", "")
AddedAP    == J("response.output_item.added", -1, "function_call", "fc_a", "call_1", "get_weather", "", "")
AddedBP    == J("response.output_item.added", -1, "function_call", "fc_b", "", "f", "", "")
AddedMsgP  == J("response.output_item.added", -1, "message", "msg_1", "", "", "", "")
ArgsAP     == J("response.function_call_arguments.delta", -1, "", "fc_a", "", "", "x", "")
ArgsBP     == J("response.function_call_arguments.delta", -1, "", "fc_b", "", "", "x", "")
ArgsDoneP  == J("response.function_call_arguments.done", -1, "", "fc_a", "", "", "", "")
ItemDoneP  == J("response.output_item.done", -1, "function_call", "fc_a", "", "", "", "")
CompletedP == J("response.completed", -1, "", "", "", "", "", "")
OtherP     == J("response.in_progress", -1, "", "", "", "", "", "")
ChunkRoleP == J("", -1, "", "", "", "", "role", "chat.completion.chunk")
ChunkTextP == J("", -1, "", "", "", "", "content", "chat.completion.chunk")

RewritePayloads ==
    {DoneP, WsP, BadP, CreatedP, TextP, ReasonP, ReasonLateP, ReasonPartP,
     ReasonNoTextP, ReasonNoIndexP, AddedAP, AddedBP, AddedMsgP, ArgsAP, ArgsBP, ArgsDoneP,
     ItemDoneP, CompletedP, OtherP, ChunkRoleP, ChunkTextP}

IsWs(p) == p.tok \in {" ", ""}

\* bytes.TrimSpace(bytes.Join(dataLines, "\n")): whitespace-only lines at the
\* ends vanish; one remaining token is that token; two or more tokens joined
\* by a newline are neither "[DONE]" nor one JSON value.
Trimmed(raw) ==
    LET nws == SelectSeq(raw, LAMBDA p : ~IsWs(p))
    IN  IF Len(nws) = 0 THEN EmptyP
        ELSE IF Len(nws) = 1 THEN nws[1]
        ELSE BadP


\* ------------------------------------------------------- SSE transformer
VARIABLES
    mode,       \* which specification runs: "rewrite", "pass", "retry", ...
    spc,        \* the stream function's position: "scan", "failed" (the read
                \* failed, the scanner's last token pending), "ok" (returned
                \* nil), "err"
    nread,      \* lines the scanner has returned so far
    dataLines,  \* data: payloads accumulated for the current event
    tr,         \* the SSETransformer
    doneSeen,   \* RewriteSSEStreamWithCallback's doneSeen
    out,        \* what has been written to the client, in order
    hist,       \* the raw events handed to flushEvent so far (history)
    readFailed, \* the upstream read ended with an error (history)
    writeFailed \* a write to the client returned an error (history)

sseVars == <<mode, spc, nread, dataLines, tr, doneSeen, out, hist, readFailed, writeFailed>>

VARIABLES
    store,        \* the credentials file: present, access, refresh, expiresAt (ms)
    now,          \* the wall clock, epoch ms
    mu,           \* OAuthFetcher.mu: "free" or the caller holding it
    cs,           \* per caller ("req", "bg"): the fetcher call in progress
    issued,       \* token pairs the OAuth server has issued
    rpc,          \* the request handler's position
    token,        \* the bearer token the handler holds
    postLog,      \* upstream POSTs of the current request: token and status (history)
    forceLog,     \* outcomes of the request's RefreshCredentials calls (history)
    updLog,       \* UpdateTokens calls since the request's first POST (history)
    clientStatus, \* HTTP status sent to the client (0: none yet)
    nadmin        \* admin posts made

authVars == <<store, now, mu, cs, issued, rpc, token, postLog, forceLog, updLog,
              clientStatus, nadmin>>

VARIABLES
    fnIn,   \* the arguments of the function under study (a record)
    fnOut   \* its results so far (a record)

fnVars == <<fnIn, fnOut>>

VARIABLES
    stopCh,   \* OAuthFetcher.stopCh: "open" or "closed"
    panicked  \* the process died of a runtime panic

lifeVars == <<stopCh, panicked>>

vars == <<sseVars, authVars, fnVars, lifeVars>>

\* no function under study
NoArgs == [none |-> TRUE]

\* the fetcher's callers: the request handler and the background task
Callers == {"req", "bg"}

\* no credentials file
NoCreds == [present |-> FALSE, access |-> 0, refresh |-> 0, expiresAt |-> 0]

\* a fetcher call: its position st, the method op, the credentials it
\* loaded and when (at), the refreshed pair and its expires_in, and its
\* results err and token
NoCall ==
    [st |-> "none", op |-> "none", creds |-> NoCreds, at |-> 0,
     newTok |-> 0, expiresIn |-> 0, err |-> FALSE, token |-> 0]

NoMap == [x \in {} |-> 0]

NewSSETransformer ==
    [responseID |-> "", roleSent |-> FALSE, toolIndexByItemID |-> NoMap,
     toolIDByItemID |-> NoMap, toolNameByItemID |-> NoMap,
     nextToolIndex |-> 0, sawToolCalls |-> FALSE]

\* One OpenAI chunk as written downstream.  kind names what delta carries:
\* "role", "content", "reasoning_content", "tool_start", "tool_args",
\* "finish" (empty delta, finish_reason set), "upstream" (an upstream
\* chat.completion.chunk re-framed; text names what its delta carries) and
\* "DONE" (the sentinel).  src is the ordinal of the upstream event the
\* chunk was derived from (0 for the synthetic sentinel).
Chunk(kind, id, idx, call, name, text, finish, src) ==
    [kind |-> kind, id |-> id, idx |-> idx, call |-> call, name |-> name,
     text |-> text, finish |-> finish, src |-> src]

DoneChunk(src) == Chunk("DONE", "", -1, "", "", "", "null", src)

Result(chunks, done, err, t) == [out |-> chunks, done |-> done, err |-> err, t |-> t]

\* the sendRole closure: the role chunk unless roleSent
SendRoleNoCheck(t, n) ==
    <<Chunk("role", t.responseID, -1, "", "", "", "null", n)>>

SendRole(t, n) ==
    IF t.roleSent THEN <<>>
    ELSE <<Chunk("role", t.responseID, -1, "", "", "", "null", n)>>

IsReasoningType(ty) ==
    ty \in {"response.reasoning_summary_text.delta", "response.reasoning_summary_part.added"}

ContainsDelta(ty) ==
    ty \in {"response.reasoning_summary_text.delta", "response.output_text.delta",
            "response.function_call_arguments.delta"}

\* fixReasoningMarkdownHeaders prepends "\n\n" only to a delta that is a
\* complete bold header; the payloads of this model carry plain text.
ExtractReasoningContent(p) == p.text

ReasoningEvent(t, p, n) ==
    IF p.oi > 0 THEN Result(<<>>, FALSE, FALSE, t)
    ELSE IF ~ContainsDelta(p.type) THEN Result(<<>>, FALSE, FALSE, t)
    ELSE IF ExtractReasoningContent(p) = "" THEN Result(<<>>, FALSE, FALSE, t)
    ELSE Result(SendRole(t, n) \o
                <<Chunk("reasoning_content", t.responseID, -1, "", "",
                        ExtractReasoningContent(p), "null", n)>>,
                FALSE, FALSE, [t EXCEPT !.roleSent = TRUE])

CreatedEvent(t, p, n) ==
    Result(<<>>, FALSE, FALSE, [t EXCEPT !.responseID = "chatcmpl-" \o p.iid])

MapPut(m, k, v) == [x \in DOMAIN m \cup {k} |-> IF x = k THEN v ELSE m[x]]

ToolIndexAlwaysNext(t, fcID) == t.nextToolIndex

\* idx, ok := t.toolIndexByItemID[fcID]; if !ok { idx = t.nextToolIndex }
ToolIndex(t, fcID) ==
    IF fcID \in DOMAIN t.toolIndexByItemID THEN t.toolIndexByItemID[fcID]
    ELSE t.nextToolIndex

ItemAddedEvent(t, p, n) ==
    IF p.itype # "function_call" THEN Result(<<>>, FALSE, FALSE, t)
    ELSE
      LET fcID == p.iid
          idx == ToolIndex(t, fcID)
          callID == IF p.callid = "" THEN "call_" \o fcID ELSE p.callid
          t1 == [t EXCEPT
                   !.nextToolIndex = IF fcID \in DOMAIN t.toolIndexByItemID
                                     THEN @ ELSE @ + 1,
                   !.toolIndexByItemID = MapPut(@, fcID, idx),
                   !.toolIDByItemID = MapPut(@, fcID, callID),
                   !.toolNameByItemID = MapPut(@, fcID, p.name),
                   !.sawToolCalls = TRUE,
                   !.roleSent = TRUE]
      IN  Result(SendRole(t, n) \o
                 <<Chunk("tool_start", t.responseID, idx, callID, p.name, "", "null", n)>>,
                 FALSE, FALSE, t1)

ArgsDeltaNoLookup(t, p, n) ==
    Result(SendRole(t, n) \o
           <<Chunk("tool_args", t.responseID, ToolIndex(t, p.iid), "", "", p.text, "null", n)>>,
           FALSE, FALSE, [t EXCEPT !.roleSent = TRUE])

ArgsDeltaEvent(t, p, n) ==
    IF p.iid \notin DOMAIN t.toolIndexByItemID THEN Result(<<>>, FALSE, FALSE, t)
    ELSE Result(SendRole(t, n) \o
                <<Chunk("tool_args", t.responseID, t.toolIndexByItemID[p.iid],
                        "", "", p.text, "null", n)>>,
                FALSE, FALSE, [t EXCEPT !.roleSent = TRUE])

TextDeltaEvent(t, p, n) ==
    Result(SendRole(t, n) \o
           <<Chunk("content", t.responseID, -1, "", "", p.text, "null", n)>>,
           FALSE, FALSE, [t EXCEPT !.roleSent = TRUE])

FinishReasonAlwaysStop(t) == "stop"

FinishReason(t) == IF t.sawToolCalls THEN "tool_calls" ELSE "stop"

CompletedEvent(t, p, n) ==
    Result(<<Chunk("finish", t.responseID, -1, "", "", "", FinishReason(t), n)>>,
           FALSE, FALSE, t)

\* SSETransformer.Transform on the joined payload of one event
Transform(t, raw, n) ==
    LET p == Trimmed(raw)
    IN  IF p.tok \in {"", " "} THEN Result(<<>>, FALSE, FALSE, t)
        ELSE IF p.tok = "[DONE]" THEN Result(<<>>, TRUE, FALSE, t)
        ELSE IF p.tok # "json" THEN Result(<<>>, FALSE, TRUE, t)
        ELSE IF IsReasoningType(p.type) THEN ReasoningEvent(t, p, n)
        ELSE CASE p.type = "response.created" -> CreatedEvent(t, p, n)
               [] p.type = "response.output_item.added" -> ItemAddedEvent(t, p, n)
               [] p.type = "response.function_call_arguments.delta" -> ArgsDeltaEvent(t, p, n)
               [] p.type = "response.function_call_arguments.done" -> Result(<<>>, FALSE, FALSE, t)
               [] p.type = "response.output_item.done" -> Result(<<>>, FALSE, FALSE, t)
               [] p.type = "response.output_text.delta" -> TextDeltaEvent(t, p, n)
               [] p.type = "response.completed" -> CompletedEvent(t, p, n)
               [] OTHER -> Result(<<>>, FALSE, FALSE, t)

\* --------------------------------------- RewriteSSEStreamWithCallback
\* "If no transformed output, pass through OpenAI chunks"
PassThroughProbe(raw, n) ==
    LET p == Trimmed(raw)
    IN  IF p.tok = "json" /\ p.object = "chat.completion.chunk"
        THEN <<Chunk("upstream", "chatcmpl-up", -1, "", "", p.text, "null", n)>>
        ELSE <<>>

\* what flushEvent sets out to write for one event
ToWrite(res, raw, n) ==
    IF res.done THEN <<DoneChunk(n)>>
    ELSE IF Len(res.out) > 0 THEN res.out
    ELSE PassThroughProbe(raw, n)

WritePrepend(o, chunks) == chunks \o o

\* w.Write of each line in turn
Write(o, chunks) == o \o chunks

\* flushEvent of the rewriter; w = how many of its writes succeed before the
\* client's writer fails (w >= the number of chunks: none fails)
FlushEvent(w) ==
    IF Len(dataLines) = 0
    THEN [dataLines |-> dataLines, hist |-> hist, tr |-> tr, doneSeen |-> doneSeen,
          out |-> out, failed |-> FALSE, wfailed |-> FALSE]
    ELSE LET raw == dataLines
             n == Len(hist) + 1
             res == Transform(tr, raw, n)
             chunks == ToWrite(res, raw, n)
         IN  IF res.err
             THEN [dataLines |-> <<>>, hist |-> Append(hist, raw), tr |-> res.t,
                   doneSeen |-> doneSeen, out |-> out, failed |-> TRUE,
                   wfailed |-> FALSE]
             ELSE [dataLines |-> <<>>, hist |-> Append(hist, raw), tr |-> res.t,
                   doneSeen |-> (doneSeen \/ res.done),
                   out |-> Write(out, SubSeq(chunks, 1, Min(w, Len(chunks)))),
                   failed |-> (w < Len(chunks)), wfailed |-> (w < Len(chunks))]

\* the most writes one flushEvent makes: a role chunk and one more
FlushWrites == 0 .. Len(ToWrite(Transform(tr, dataLines, 0), dataLines, 0))

Scanning == mode = "rewrite" /\ spc = "scan"

\* a blank line ends the current event
ScanBlank ==
    /\ Scanning /\ nread < MaxLines
    /\ \E w \in FlushWrites :
         LET f == FlushEvent(w)
         IN  /\ dataLines' = f.dataLines /\ hist' = f.hist /\ tr' = f.tr
             /\ doneSeen' = f.doneSeen /\ out' = f.out
             /\ spc' = IF f.failed THEN "err" ELSE "scan"
             /\ writeFailed' = f.wfailed
    /\ nread' = nread + 1
    /\ UNCHANGED <<authVars, fnVars, lifeVars, mode, readFailed>>

\* a line starting with ":" is ignored
ScanComment ==
    /\ Scanning /\ nread < MaxLines
    /\ nread' = nread + 1
    /\ UNCHANGED <<authVars, fnVars, lifeVars, mode, spc, dataLines, tr, doneSeen, out, hist, readFailed, writeFailed>>

\* event:, id: and any other field is ignored
ScanField ==
    /\ Scanning /\ nread < MaxLines
    /\ nread' = nread + 1
    /\ UNCHANGED <<authVars, fnVars, lifeVars, mode, spc, dataLines, tr, doneSeen, out, hist, readFailed, writeFailed>>

\* a data: line is accumulated
ScanData ==
    /\ Scanning /\ nread < MaxLines /\ Len(dataLines) < MaxDataLines
    /\ \E p \in RewritePayloads : dataLines' = Append(dataLines, p)
    /\ nread' = nread + 1
    /\ UNCHANGED <<authVars, fnVars, lifeVars, mode, spc, tr, doneSeen, out, hist, readFailed, writeFailed>>

\* the Read under scanner.Scan() returns an error: the scanner keeps it and
\* hands the split function what is left in its buffer (atEOF = true)
ScanReadError ==
    /\ Scanning
    /\ spc' = "failed" /\ readFailed' = TRUE
    /\ UNCHANGED <<authVars, fnVars, lifeVars, mode, nread, dataLines, tr, doneSeen, out, hist, writeFailed>>

\* what the buffer held after the last newline when the read failed: nothing,
\* or the start of a line, which ScanLines returns as a final token
FinalTokens == {"none", "blank", "comment", "field", "data"}

\* the loop body runs on the final token; the next Scan() returns false and
\* scanner.Err() ends the rewrite.  A token of white space only ("\r" of a
\* cut CRLF, " ") is a blank line: the pending event is flushed.
ScanFinalToken ==
    /\ mode = "rewrite" /\ spc = "failed"
    /\ \E frag \in FinalTokens :
         \/ /\ frag \in {"none", "comment", "field"}
            /\ UNCHANGED <<dataLines, tr, doneSeen, out, hist, writeFailed>>
         \/ /\ frag = "data" /\ Len(dataLines) < MaxDataLines
            /\ dataLines' = Append(dataLines, BadP)
            /\ UNCHANGED <<tr, doneSeen, out, hist, writeFailed>>
         \/ /\ frag = "blank"
            /\ \E w \in FlushWrites :
                 LET f == FlushEvent(w)
                 IN  /\ dataLines' = f.dataLines /\ hist' = f.hist /\ tr' = f.tr
                     /\ doneSeen' = f.doneSeen /\ out' = f.out
                     /\ writeFailed' = f.wfailed
    /\ spc' = "err"
    /\ UNCHANGED <<authVars, fnVars, lifeVars, mode, nread, readFailed>>

\* the upstream closes: flush the trailing event, then the synthetic DONE
ScanEOF ==
    /\ Scanning
    /\ \E w \in FlushWrites, wd \in BOOLEAN :
         LET f == FlushEvent(w)
             needDone == ~f.failed /\ ~f.doneSeen
         IN  /\ dataLines' = f.dataLines /\ hist' = f.hist /\ tr' = f.tr
             /\ doneSeen' = f.doneSeen
             /\ out' = IF needDone /\ wd THEN Write(f.out, <<DoneChunk(0)>>) ELSE f.out
             /\ spc' = IF f.failed \/ (needDone /\ ~wd) THEN "err" ELSE "ok"
             /\ writeFailed' = (f.wfailed \/ (needDone /\ ~wd))
    /\ UNCHANGED <<authVars, fnVars, lifeVars, mode, nread, readFailed>>

\* the credential layer at rest (the stream specifications leave it alone)
AuthAtRest ==
    /\ store = NoCreds
    /\ now = 0 /\ mu = "free" /\ cs = [c \in Callers |-> NoCall]
    /\ issued = 0 /\ rpc = "idle" /\ token = 0 /\ postLog = <<>> /\ forceLog = <<>>
    /\ updLog = <<>> /\ clientStatus = 0 /\ nadmin = 0

\* no function under study (the stream and retry specifications)
FnAtRest == fnIn = NoArgs /\ fnOut = NoArgs

\* NewOAuthFetcher: stopCh made, the process running
LifeAtRest == stopCh = "open" /\ panicked = FALSE

InitRewrite ==
    /\ AuthAtRest /\ FnAtRest /\ LifeAtRest
    /\ mode = "rewrite" /\ spc = "scan" /\ nread = 0 /\ dataLines = <<>>
    /\ tr = NewSSETransformer /\ doneSeen = FALSE /\ out = <<>> /\ hist = <<>>
    /\ readFailed = FALSE /\ writeFailed = FALSE

NextRewrite ==
    \/ ScanBlank \/ ScanComment \/ ScanField \/ ScanData \/ ScanReadError
    \/ ScanFinalToken \/ ScanEOF

\* ------------------------------------------- credentials and 401 retry
\* TokenExpiryBuffer = 60 * time.Minute, in ms
TokenExpiryBufferMs == 60 * 60 * 1000

\* the clock step of the model: 30 minutes
TickMs == 30 * 60 * 1000

\* expires_in values (seconds) the OAuth server answers with
ExpiresInChoices == {30 * 60, 90 * 60}

TokenExpiredAlways(expiresAtMs, t) == TRUE

\* TokenExpired with time.Now().UnixMilli() = t
TokenExpired(expiresAtMs, t) == t >= expiresAtMs - TokenExpiryBufferMs

\* CalculateExpiresAt with time.Now() = t (ms)
CalculateExpiresAt(expiresIn, t) == ((t \div 1000) + expiresIn) * 1000

Call(op) == [NoCall EXCEPT !.st = "want", !.op = op]

\* the return of a fetcher method: the deferred Unlock and the results (the
\* background task goes back to waiting for its ticker)
Return(c, err, tok) ==
    IF c = "bg" THEN NoCall
    ELSE [NoCall EXCEPT !.st = "ret", !.op = cs[c].op, !.creds = cs[c].creds,
                        !.at = cs[c].at, !.err = err, !.token = tok]

\* True while the request is between its first and its second upstream POST
BetweenPosts == rpc \in {"rc", "gc2", "post2"}

LogUpdate(c, op) ==
    IF BetweenPosts THEN Append(updLog, [by |-> c, op |-> op]) ELSE updLog

\* Lock, then baseFetcher.GetFullCredentials and the expiry check of
\* GetCredentials / checkAndRefreshToken (RefreshCredentials has none)
FLoad(c) ==
    /\ mode = "retry" /\ cs[c].st = "want" /\ mu = "free"
    /\ IF ~store.present
       THEN /\ cs' = [cs EXCEPT ![c] = Return(c, TRUE, 0)]
            /\ mu' = mu
       ELSE IF cs[c].op # "force" /\ ~TokenExpired(store.expiresAt, now)
       THEN /\ cs' = [cs EXCEPT ![c] =
                       IF c = "bg" THEN NoCall
                       ELSE [Return(c, FALSE, store.access)
                               EXCEPT !.creds = store, !.at = now]]
            /\ mu' = mu
       ELSE /\ cs' = [cs EXCEPT ![c] =
                       [@ EXCEPT !.st = "loaded", !.creds = store, !.at = now]]
            /\ mu' = c
    /\ UNCHANGED <<sseVars, fnVars, lifeVars, store, now, issued, rpc, token, postLog, forceLog,
                   updLog, clientStatus, nadmin>>

\* RefreshToken(creds.RefreshToken) fails: GetCredentials returns the stale
\* token, RefreshCredentials the error, the background check gives up
FRefreshFail(c) ==
    /\ mode = "retry" /\ cs[c].st = "loaded" /\ mu = c
    /\ cs' = [cs EXCEPT ![c] =
                IF cs[c].op = "force" THEN Return(c, TRUE, 0)
                ELSE Return(c, FALSE, cs[c].creds.access)]
    /\ mu' = "free"
    /\ UNCHANGED <<sseVars, fnVars, lifeVars, store, now, issued, rpc, token, postLog, forceLog,
                   updLog, clientStatus, nadmin>>

\* RefreshToken(creds.RefreshToken) returns a new token pair
FRefreshOk(c) ==
    /\ mode = "retry" /\ cs[c].st = "loaded" /\ mu = c
    /\ issued < MaxRefreshes
    /\ \E e \in ExpiresInChoices :
         cs' = [cs EXCEPT ![c] = [@ EXCEPT !.st = "refreshed", !.newTok = issued + 1,
                                          !.expiresIn = e]]
    /\ issued' = issued + 1
    /\ UNCHANGED <<sseVars, fnVars, lifeVars, store, now, mu, rpc, token, postLog, forceLog,
                   updLog, clientStatus, nadmin>>

StoreUpdateKeepAccess(access, refresh, expiresAt, ok) ==
    IF store.present /\ ok
    THEN [present |-> TRUE, access |-> store.access, refresh |-> refresh,
          expiresAt |-> expiresAt]
    ELSE store

\* FSCredentialsFetcher.UpdateTokens: read the file, set the three token
\* fields, write it back; ok = the read and the write succeed
StoreUpdate(access, refresh, expiresAt, ok) ==
    IF store.present /\ ok
    THEN [present |-> TRUE, access |-> access, refresh |-> refresh,
          expiresAt |-> expiresAt]
    ELSE store

FetcherUpdateStale(c, ok) ==
    StoreUpdate(cs[c].creds.access, cs[c].newTok,
                CalculateExpiresAt(cs[c].expiresIn, now), ok)

\* the store after the fetcher's UpdateTokens of the refreshed pair
FetcherUpdate(c, ok) ==
    StoreUpdate(cs[c].newTok, cs[c].newTok,
                CalculateExpiresAt(cs[c].expiresIn, now), ok)

\* CalculateExpiresAt, baseFetcher.UpdateTokens, Unlock and return
FUpdate(c) ==
    /\ mode = "retry" /\ cs[c].st = "refreshed" /\ mu = c
    /\ \E ok \in BOOLEAN :
         /\ store' = FetcherUpdate(c, ok)
         /\ cs' = [cs EXCEPT ![c] =
                     IF cs[c].op = "force"
                     THEN Return(c, ~(store.present /\ ok), 0)
                     ELSE Return(c, FALSE, cs[c].newTok)]
    /\ updLog' = LogUpdate(c, cs[c].op)
    /\ mu' = "free"
    /\ UNCHANGED <<sseVars, fnVars, lifeVars, now, issued, rpc, token, postLog, forceLog,
                   clientStatus, nadmin>>


SpecRewrite == InitRewrite /\ [][NextRewrite]_vars

\* ------------------------------------------------- PassThroughSSEStream
PassPayloads == {DoneP, WsP, EmptyP, TextP, CompletedP}

\* the bytes of bytes.Join(dataLines, "\n") after "data: ": the first payload
\* follows the data: prefix, every further payload is a line of its own
\* without one
WrittenLines(raw) ==
    [i \in 1 .. Len(raw) |-> [data |-> (i = 1), payload |-> raw[i]]]

PassEvent(raw, n) == [kind |-> "event", lines |-> WrittenLines(raw), src |-> n]

\* len(raw) > 0: some payload has a byte, or there are two payloads (the
\* joining newline)
RawNonEmpty(raw) == Len(raw) > 1 \/ (Len(raw) = 1 /\ raw[1].tok # "")

PassToWrite(raw, n) ==
    IF Trimmed(raw).tok = "[DONE]" THEN <<DoneChunk(n)>>
    ELSE IF RawNonEmpty(raw) THEN <<PassEvent(raw, n)>>
    ELSE <<>>

\* flushEvent of PassThroughSSEStream; w as in FlushEvent
PassFlushEvent(w) ==
    IF Len(dataLines) = 0
    THEN [dataLines |-> dataLines, hist |-> hist, out |-> out, failed |-> FALSE]
    ELSE LET raw == dataLines
             chunks == PassToWrite(raw, Len(hist) + 1)
         IN  [dataLines |-> <<>>, hist |-> Append(hist, raw),
              out |-> Write(out, SubSeq(chunks, 1, Min(w, Len(chunks)))),
              failed |-> (w < Len(chunks))]

PassWrites == 0 .. Len(PassToWrite(dataLines, 0))

Passing == mode = "pass" /\ spc = "scan"

PassBlank ==
    /\ Passing /\ nread < MaxLines
    /\ \E w \in PassWrites :
         LET f == PassFlushEvent(w)
         IN  /\ dataLines' = f.dataLines /\ hist' = f.hist /\ out' = f.out
             /\ spc' = IF f.failed THEN "err" ELSE "scan"
             /\ writeFailed' = f.failed
    /\ nread' = nread + 1
    /\ UNCHANGED <<authVars, fnVars, lifeVars, mode, tr, doneSeen, readFailed>>

PassComment ==
    /\ Passing /\ nread < MaxLines
    /\ nread' = nread + 1
    /\ UNCHANGED <<authVars, fnVars, lifeVars, mode, spc, dataLines, tr, doneSeen, out, hist, readFailed, writeFailed>>

PassField ==
    /\ Passing /\ nread < MaxLines
    /\ nread' = nread + 1
    /\ UNCHANGED <<authVars, fnVars, lifeVars, mode, spc, dataLines, tr, doneSeen, out, hist, readFailed, writeFailed>>

PassData ==
    /\ Passing /\ nread < MaxLines /\ Len(dataLines) < MaxDataLines
    /\ \E p \in PassPayloads : dataLines' = Append(dataLines, p)
    /\ nread' = nread + 1
    /\ UNCHANGED <<authVars, fnVars, lifeVars, mode, spc, tr, doneSeen, out, hist, readFailed, writeFailed>>

PassReadError ==
    /\ Passing
    /\ spc' = "err" /\ readFailed' = TRUE
    /\ UNCHANGED <<authVars, fnVars, lifeVars, mode, nread, dataLines, tr, doneSeen, out, hist, writeFailed>>

\* the upstream closes: return flushEvent()
PassEOF ==
    /\ Passing
    /\ \E w \in PassWrites :
         LET f == PassFlushEvent(w)
         IN  /\ dataLines' = f.dataLines /\ hist' = f.hist /\ out' = f.out
             /\ spc' = IF f.failed THEN "err" ELSE "ok"
             /\ writeFailed' = f.failed
    /\ UNCHANGED <<authVars, fnVars, lifeVars, mode, nread, tr, doneSeen, readFailed>>

InitPass ==
    /\ AuthAtRest /\ FnAtRest /\ LifeAtRest
    /\ mode = "pass" /\ spc = "scan" /\ nread = 0 /\ dataLines = <<>>
    /\ tr = NewSSETransformer /\ doneSeen = FALSE /\ out = <<>> /\ hist = <<>>
    /\ readFailed = FALSE /\ writeFailed = FALSE

NextPass ==
    \/ PassBlank \/ PassComment \/ PassField \/ PassData \/ PassReadError \/ PassEOF

SpecPass == InitPass /\ [][NextPass]_vars

\* ---------------------------------- the chat / responses request handler
\* statuses the upstream answers a POST with; 0 is a transport error
UpstreamOutcomes == {0, 200, 401, 500}

Respond(status) ==
    /\ rpc' = "done"
    /\ clientStatus' = status

\* a request arrives: makeChatGPTRequestWithRetry calls GetCredentials
ReqStart ==
    /\ mode = "retry" /\ rpc = "idle"
    /\ rpc' = "gc1"
    /\ cs' = [cs EXCEPT !["req"] = Call("get")]
    /\ UNCHANGED <<sseVars, fnVars, lifeVars, store, now, mu, issued, token, postLog, forceLog, updLog,
                   clientStatus, nadmin>>

\* GetCredentials returned: an error is answered 503, else the POST follows
ReqGotCreds ==
    /\ mode = "retry" /\ rpc \in {"gc1", "gc2"} /\ cs["req"].st = "ret"
    /\ IF cs["req"].err
       THEN Respond(503) /\ token' = token
       ELSE /\ rpc' = IF rpc = "gc1" THEN "post1" ELSE "post2"
            /\ token' = cs["req"].token
            /\ clientStatus' = clientStatus
    /\ UNCHANGED <<sseVars, fnVars, lifeVars, store, now, mu, cs, issued, postLog, forceLog, updLog,
                   nadmin>>

\* what the handler answers when RefreshCredentials failed after a 401:
\* makeChatGPTRequestWithRetry returns (nil, 401, err) and the handler
\* answers every err with http.StatusServiceUnavailable
RefreshFailedStatus == 503

RetryOn401Always(st) == st = 401

\* "If not a 401 error, return the response as-is"
RetryOn401(st) == st = 401 /\ rpc = "post1"

\* makeChatGPTRequest: the first POST, or the retry
ReqPost ==
    /\ mode = "retry" /\ rpc \in {"post1", "post2"}
    /\ \E st \in UpstreamOutcomes :
         /\ postLog' = Append(postLog, [token |-> token, status |-> st])
         /\ IF st = 0 THEN Respond(503) /\ cs' = cs
            ELSE IF RetryOn401(st)
            THEN /\ rpc' = "rc"
                 /\ cs' = [cs EXCEPT !["req"] = Call("force")]
                 /\ clientStatus' = clientStatus
            ELSE Respond(st) /\ cs' = cs
    /\ UNCHANGED <<sseVars, fnVars, lifeVars, store, now, mu, issued, token, forceLog, updLog,
                   nadmin>>

\* RefreshCredentials returned
ReqRefreshed ==
    /\ mode = "retry" /\ rpc = "rc" /\ cs["req"].st = "ret"
    /\ forceLog' = Append(forceLog, ~cs["req"].err)
    /\ IF cs["req"].err
       THEN Respond(RefreshFailedStatus) /\ cs' = cs
       ELSE /\ rpc' = "gc2"
            /\ cs' = [cs EXCEPT !["req"] = Call("get")]
            /\ clientStatus' = clientStatus
    /\ UNCHANGED <<sseVars, fnVars, lifeVars, store, now, mu, issued, token, postLog, updLog,
                   nadmin>>

\* the background ticker fires: checkAndRefreshToken
BgTick ==
    /\ mode = "retry" /\ cs["bg"].st = "none"
    /\ cs' = [cs EXCEPT !["bg"] = Call("check")]
    /\ UNCHANGED <<sseVars, fnVars, lifeVars, store, now, mu, issued, rpc, token, postLog, forceLog,
                   updLog, clientStatus, nadmin>>

\* a token pair the operator posts that the proxy has not seen
AdminToken == 100 + nadmin

\* the pairs the operator may post: a new one, or once more the pair the
\* credentials file held at startup
AdminTokens == {AdminToken, 0}

\* POST /admin/credentials with valid fields: OAuthFetcher.UpdateTokens
\* passes straight through to the store
AdminUpdate ==
    /\ mode = "retry" /\ nadmin < MaxAdmin
    /\ \E ok \in BOOLEAN, tk \in AdminTokens :
         store' = StoreUpdate(tk, tk, now + 2 * TokenExpiryBufferMs, ok)
    /\ updLog' = LogUpdate("admin", "admin")
    /\ nadmin' = nadmin + 1
    /\ UNCHANGED <<sseVars, fnVars, lifeVars, now, mu, cs, issued, rpc, token, postLog, forceLog,
                   clientStatus>>

\* time passes
Tick ==
    /\ mode = "retry" /\ now < MaxTicks * TickMs
    /\ now' = now + TickMs
    /\ UNCHANGED <<sseVars, fnVars, lifeVars, store, mu, cs, issued, rpc, token, postLog, forceLog,
                   updLog, clientStatus, nadmin>>

\* the credentials file at startup: absent, or holding token pair 0 that is
\* fresh or already inside the expiry buffer
InitialStores ==
    {NoCreds} \cup
    {[present |-> TRUE, access |-> 0, refresh |-> 0, expiresAt |-> e * 1000] :
       e \in ExpiresInChoices}

InitRetry ==
    /\ mode = "retry" /\ spc = "scan" /\ nread = 0 /\ dataLines = <<>>
    /\ tr = NewSSETransformer /\ doneSeen = FALSE /\ out = <<>> /\ hist = <<>>
    /\ readFailed = FALSE /\ writeFailed = FALSE
    /\ store \in InitialStores
    /\ now = 0 /\ mu = "free" /\ cs = [c \in Callers |-> NoCall]
    /\ issued = 0 /\ rpc = "idle" /\ token = 0 /\ postLog = <<>> /\ forceLog = <<>>
    /\ updLog = <<>> /\ clientStatus = 0 /\ nadmin = 0
    /\ FnAtRest /\ LifeAtRest

NextRetry ==
    \/ \E c \in Callers : FLoad(c)
    \/ \E c \in Callers : FRefreshFail(c)
    \/ \E c \in Callers : FRefreshOk(c)
    \/ \E c \in Callers : FUpdate(c)
    \/ ReqStart \/ ReqGotCreds \/ ReqPost \/ ReqRefreshed
    \/ BgTick \/ AdminUpdate \/ Tick

SpecRetry == InitRetry /\ [][NextRetry]_vars

Spec == SpecRetry

\* ------------------------------------------------- the expiry judgement
\* the stream and the credential layer at rest (the function studies leave
\* them alone)
SseAtRest ==
    /\ spc = "scan" /\ nread = 0 /\ dataLines = <<>>
    /\ tr = NewSSETransformer /\ doneSeen = FALSE /\ out = <<>> /\ hist = <<>>
    /\ readFailed = FALSE /\ writeFailed = FALSE

\* Go's integer division: truncates toward zero
Quot(a, b) == IF a >= 0 THEN a \div b ELSE -((-a) \div b)

\* offsets (in half seconds) of the expiry instants studied
MaxOffset == 2

\* expiresAt values (epoch ms) studied: four hours plus the offsets
ExpiresAtInputs == {4 * 60 * 60 * 1000 + 500 * k : k \in 0 .. MaxOffset}

\* expiresAt - now (ms) at the instants studied: around actual expiry, one
\* minute, the 60-minute buffer, 61 minutes, and far from expiry
RemainingChoices ==
    {-60000, -1, 0, 1, 59999, 60000, 60001, 3599999, 3600000, 3600001,
     3630000, 3659999, 3660000, 3660001, 7200000}

\* a judgement not made yet
Unjudged ==
    [get |-> <<>>, bg |-> <<>>, isExpired |-> <<>>, needsRefreshSoon |-> <<>>]

\* GetCredentials: "if TokenExpired(creds.ExpiresAt)"
ExpiryGetCredentials ==
    /\ mode = "expiry" /\ fnOut.get = <<>>
    /\ fnOut' = [fnOut EXCEPT !.get = <<TokenExpired(fnIn.expiresAt, fnIn.now)>>]
    /\ UNCHANGED <<sseVars, authVars, lifeVars, fnIn>>

\* checkAndRefreshToken: returns early "if !TokenExpired(creds.ExpiresAt)"
ExpiryBackground ==
    /\ mode = "expiry" /\ fnOut.bg = <<>>
    /\ fnOut' = [fnOut EXCEPT !.bg = <<~(~TokenExpired(fnIn.expiresAt, fnIn.now))>>]
    /\ UNCHANGED <<sseVars, authVars, lifeVars, fnIn>>

\* credentialsStatusHandler: now := time.Now().Unix() * 1000,
\* minutesUntilExpiry := (creds.ExpiresAt - now) / 1000 / 60
MinutesUntilExpiry(expiresAtMs, t) ==
    Quot(Quot(expiresAtMs - (t \div 1000) * 1000, 1000), 60)

\* credentialsStatusHandler: isExpired and needsRefreshSoon of the response
ExpiryStatus ==
    /\ mode = "expiry" /\ fnOut.isExpired = <<>>
    /\ LET m == MinutesUntilExpiry(fnIn.expiresAt, fnIn.now)
       IN  fnOut' = [fnOut EXCEPT !.isExpired = <<m <= 0>>,
                                  !.needsRefreshSoon = <<m <= 60>>]
    /\ UNCHANGED <<sseVars, authVars, lifeVars, fnIn>>

InitExpiry ==
    /\ mode = "expiry" /\ SseAtRest /\ AuthAtRest /\ LifeAtRest
    /\ \E e \in ExpiresAtInputs, r \in RemainingChoices :
         fnIn = [expiresAt |-> e, now |-> e - r]
    /\ fnOut = Unjudged

NextExpiry == ExpiryGetCredentials \/ ExpiryBackground \/ ExpiryStatus

SpecExpiry == InitExpiry /\ [][NextExpiry]_vars

\* ------------------------------------------------- stopping the fetcher
\* OAuthFetcher.Close: close(o.stopCh); closing a closed channel panics
Close ==
    /\ mode = "retry"
    /\ IF stopCh = "open"
       THEN stopCh' = "closed" /\ panicked' = panicked
       ELSE stopCh' = stopCh /\ panicked' = TRUE
    /\ UNCHANGED <<sseVars, authVars, fnVars>>

\* backgroundRefresh, waiting in its select, takes "case <-o.stopCh" and
\* returns
BgStop ==
    /\ mode = "retry" /\ stopCh = "closed" /\ cs["bg"].st = "none"
    /\ cs' = [cs EXCEPT !["bg"] = [NoCall EXCEPT !.st = "stopped"]]
    /\ UNCHANGED <<sseVars, fnVars, lifeVars, store, now, mu, issued, rpc, token,
                   postLog, forceLog, updLog, clientStatus, nadmin>>

\* a panic ends the process
Running == ~panicked

\* the fetcher in use while it is being stopped
NextClose ==
    \/ \E c \in Callers : Running /\ FLoad(c)
    \/ \E c \in Callers : Running /\ FRefreshFail(c)
    \/ \E c \in Callers : Running /\ FRefreshOk(c)
    \/ \E c \in Callers : Running /\ FUpdate(c)
    \/ Running /\ ReqStart
    \/ Running /\ ReqGotCreds
    \/ Running /\ ReqPost
    \/ Running /\ ReqRefreshed
    \/ Running /\ BgTick
    \/ Running /\ Close
    \/ Running /\ BgStop

SpecClose == InitRetry /\ [][NextClose]_vars

\* ------------------------------------------------ the admin-key middleware
\* A string is the sequence of the words strings.Split(s, " ") cuts it into;
\* the empty string is <<>>.
\* longest Authorization header studied, in words
MaxWords == 3

Words == {"Bearer", "bearer", "Basic", "k", "k2", "w"}

\* header values studied
AuthHeaders == UNION {[1 .. n -> Words] : n \in 0 .. MaxWords}

XKeyHeaders == {<<>>, <<"k">>, <<"w">>, <<"k", "k2">>}

\* env.Get("ADMIN_API_KEY"): unset, set but empty, a one-word key, a key
\* holding a space
EnvChoices ==
    {[ok |-> FALSE, key |-> <<>>], [ok |-> TRUE, key |-> <<>>],
     [ok |-> TRUE, key |-> <<"k">>], [ok |-> TRUE, key |-> <<"k", "k2">>]}

SchemeIsBearerExact(w) == w = "Bearer"

\* strings.EqualFold(parts[0], "Bearer")
SchemeIsBearer(w) == w \in {"Bearer", "bearer"}

KeyMatchesAny(provided, adminKey) == TRUE

\* "if providedToken != adminKey" rejects
KeyMatches(provided, adminKey) == provided = adminKey

\* adminMiddleware up to its decision: the status it answers with (0: none,
\* the wrapped handler is called)
AdminDecision(env, auth, xkey) ==
    IF ~env.ok \/ env.key = <<>> THEN 500
    ELSE IF auth # <<>>
    THEN IF Len(auth) # 2 \/ ~SchemeIsBearer(auth[1]) THEN 401
         ELSE IF KeyMatches(<<auth[2]>>, env.key) THEN 0 ELSE 401
    ELSE IF xkey # <<>>
    THEN IF KeyMatches(xkey, env.key) THEN 0 ELSE 401
    ELSE 401

\* no decision yet
Undecided == [status |-> -1, handled |-> FALSE]

\* adminMiddleware: reject with http.Error, or go on to next(w, r)
AdminMiddleware ==
    /\ mode = "admin" /\ fnOut.status = -1
    /\ fnOut' = [fnOut EXCEPT !.status = AdminDecision(fnIn.env, fnIn.auth, fnIn.xkey)]
    /\ UNCHANGED <<sseVars, authVars, lifeVars, fnIn>>

\* next(w, r): the wrapped handler (chat, responses, credentials, status)
\* runs, the only code of the route that reaches the store or the upstream
AdminNext ==
    /\ mode = "admin" /\ fnOut.status = 0 /\ ~fnOut.handled
    /\ fnOut' = [fnOut EXCEPT !.handled = TRUE]
    /\ UNCHANGED <<sseVars, authVars, lifeVars, fnIn>>

InitAdmin ==
    /\ mode = "admin" /\ SseAtRest /\ AuthAtRest /\ LifeAtRest
    /\ \E e \in EnvChoices, a \in AuthHeaders, x \in XKeyHeaders :
         fnIn = [env |-> e, auth |-> a, xkey |-> x]
    /\ fnOut = Undecided

NextAdmin == AdminMiddleware \/ AdminNext

SpecAdmin == InitAdmin /\ [][NextAdmin]_vars

\* ------------------------------------------- model and reasoning effort
\* A string is a sequence of pieces; a piece is a run of characters that no
\* other piece overlaps ("xhigh" is <<"x", "high">>, "minimal" is
\* <<"mini", "mal">>), so prefix, suffix and substring tests on strings are
\* the same tests on piece sequences.  "GPT", "CODEX" and "HIGH" are upper
\* case, " " is white space, "o3" and "4" stand for other text.

\* strings.ToLower
LowerPiece(p) ==
    CASE p = "GPT" -> "gpt" [] p = "CODEX" -> "codex" [] p = "HIGH" -> "high"
      [] OTHER -> p

ToLower(s) == [i \in 1 .. Len(s) |-> LowerPiece(s[i])]

\* strings.TrimSpace
RECURSIVE TrimLeft(_)
TrimLeft(s) == IF s # <<>> /\ Head(s) = " " THEN TrimLeft(Tail(s)) ELSE s

RECURSIVE TrimRight(_)
TrimRight(s) ==
    IF s # <<>> /\ s[Len(s)] = " " THEN TrimRight(SubSeq(s, 1, Len(s) - 1)) ELSE s

TrimSpace(s) == TrimRight(TrimLeft(s))

\* strings.HasSuffix, strings.TrimSuffix, strings.Contains
HasSuffix(s, suf) ==
    Len(s) >= Len(suf) /\ SubSeq(s, Len(s) - Len(suf) + 1, Len(s)) = suf

TrimSuffix(s, suf) == IF HasSuffix(s, suf) THEN SubSeq(s, 1, Len(s) - Len(suf)) ELSE s

Contains(s, sub) ==
    \E i \in 0 .. Len(s) - Len(sub) : SubSeq(s, i + 1, i + Len(sub)) = sub

\* the canonical model ids (models.go)
modelGPT5 == <<"gpt", "-", "5">>
modelGPT5Codex == modelGPT5 \o <<"-", "codex">>
modelGPT51 == modelGPT5 \o <<".1">>
modelGPT51Codex == modelGPT51 \o <<"-", "codex">>
modelGPT51CodexMax == modelGPT51Codex \o <<"-", "max">>
modelGPT52 == modelGPT5 \o <<".2">>
modelGPT52Codex == modelGPT52 \o <<"-", "codex">>
modelGPT53Codex == modelGPT5 \o <<".3", "-", "codex">>
modelGPT53CodexSpark == modelGPT53Codex \o <<"-", "spark">>
modelGPT5CodexMini == modelGPT5Codex \o <<"-", "mini">>
modelGPT51CodexMini == modelGPT51Codex \o <<"-", "mini">>

supportedModelIDs ==
    {modelGPT5, modelGPT52, modelGPT52Codex, modelGPT53Codex, modelGPT53CodexSpark,
     modelGPT5Codex, modelGPT51, modelGPT51Codex, modelGPT51CodexMax,
     modelGPT5CodexMini, modelGPT51CodexMini}

\* the effort levels
Minimal == <<"mini", "mal">>
Low == <<"low">>
Medium == <<"medium">>
High == <<"high">>
XHigh == <<"x", "high">>

\* modelAllowedEfforts; a model that is no key of the map has {}
modelAllowedEfforts(m) ==
    CASE m \in {modelGPT5, modelGPT5Codex} -> {Minimal, Low, Medium, High}
      [] m \in {modelGPT52, modelGPT52Codex, modelGPT53Codex, modelGPT53CodexSpark,
                modelGPT51CodexMax} -> {Low, Medium, High, XHigh}
      [] m \in {modelGPT51, modelGPT51Codex} -> {Low, Medium, High}
      [] m \in {modelGPT5CodexMini, modelGPT51CodexMini} -> {Medium, High}
      [] OTHER -> {}

\* modelDefaultEffort; <<>> for a model that is no key of the map
modelDefaultEffort(m) ==
    CASE m \in {modelGPT51, modelGPT51Codex, modelGPT51CodexMax} -> Low
      [] m \in {modelGPT52, modelGPT52Codex, modelGPT53Codex, modelGPT5CodexMini,
                modelGPT51CodexMini} -> Medium
      [] m = modelGPT53CodexSpark -> High
      [] OTHER -> <<>>

\* a JSON field holding a string: <<>> when absent (or not a string),
\* <<s>> when it holds the string s
FieldString(f) == IF f = <<>> THEN <<>> ELSE f[1]

\* resolveRequestModel
resolveRequestModel(req) ==
    LET model == TrimSpace(FieldString(req.model))
    IN  IF req.model # <<>> /\ model # <<>> THEN model ELSE modelGPT5

\* the effort suffixes in the order normalizeModel and
\* resolveReasoningEffort try them
EffortOrder == <<XHigh, High, Medium, Low, Minimal>>

RECURSIVE SuffixEffortFrom(_, _)
SuffixEffortFrom(lower, i) ==
    IF i > Len(EffortOrder) THEN <<>>
    ELSE IF HasSuffix(lower, <<"-">> \o EffortOrder[i]) THEN EffortOrder[i]
    ELSE SuffixEffortFrom(lower, i + 1)

\* the first effort suffix the string ends with (<<>>: none)
SuffixEffort(lower) == SuffixEffortFrom(lower, 1)

NormalizeModelKeepSuffix(model) == ToLower(TrimSpace(model))

\* normalizeModel
normalizeModel(model) ==
    LET l0 == ToLower(TrimSpace(model))
        e == SuffixEffort(l0)
        lower == IF e = <<>> THEN l0 ELSE TrimSuffix(l0, <<"-">> \o e)
    IN  IF lower = <<>> THEN modelGPT5
        ELSE IF Contains(lower, modelGPT52Codex) THEN modelGPT52Codex
        ELSE IF Contains(lower, modelGPT52) THEN modelGPT52
        ELSE IF Contains(lower, modelGPT51CodexMax) THEN modelGPT51CodexMax
        ELSE IF Contains(lower, modelGPT51CodexMini) THEN modelGPT51CodexMini
        ELSE IF Contains(lower, modelGPT51Codex) THEN modelGPT51Codex
        ELSE IF Contains(lower, modelGPT51) THEN modelGPT51
        ELSE IF Contains(lower, modelGPT5CodexMini) THEN modelGPT5CodexMini
        ELSE IF Contains(lower, modelGPT5Codex) \/ Contains(lower, <<"codex">>)
        THEN modelGPT5Codex
        ELSE modelGPT5

\* normalizeReasoningEffort
normalizeReasoningEffort(effort) ==
    LET e == ToLower(TrimSpace(effort))
    IN  IF e \in {Minimal, Low, Medium, High, XHigh} THEN e
        ELSE IF e = <<"none">> THEN Low
        ELSE <<>>

\* resolveReasoningEffort: reasoning_effort, else reasoning.effort, else the
\* model's effort suffix
resolveReasoningEffort(req) ==
    IF TrimSpace(FieldString(req.reasoning_effort)) # <<>>
    THEN TrimSpace(FieldString(req.reasoning_effort))
    ELSE IF TrimSpace(FieldString(req.effort)) # <<>>
    THEN TrimSpace(FieldString(req.effort))
    ELSE SuffixEffort(ToLower(TrimSpace(FieldString(req.model))))

ClampKeepRequested(effort, backendModel) == effort

\* clampReasoningEffortForModel (both arguments arrive trimmed)
clampReasoningEffortForModel(effort, backendModel) ==
    IF effort = <<>> THEN modelDefaultEffort(backendModel)
    ELSE IF modelAllowedEfforts(backendModel) = {} THEN effort
    ELSE IF effort \in modelAllowedEfforts(backendModel) THEN effort
    ELSE IF modelDefaultEffort(backendModel) # <<>> THEN modelDefaultEffort(backendModel)
    ELSE effort

\* the model and reasoning.effort of the upstream body (effort <<>>: the
\* key is not set)
UpstreamModelEffort(model, effort) == [model |-> model, effort |-> effort]

\* buildCodexRequestBody: body["model"] and buildReasoningSettings
buildCodexRequestBody(req) ==
    LET backendModel == normalizeModel(resolveRequestModel(req))
    IN  UpstreamModelEffort(
          backendModel,
          clampReasoningEffortForModel(
            normalizeReasoningEffort(resolveReasoningEffort(req)), backendModel))

\* responsesHandler and transformResponsesRequestBody: body["model"] and
\* body["reasoning"]["effort"]
transformResponsesRequestBody(req) ==
    LET normalizedModel == normalizeModel(resolveRequestModel(req))
    IN  UpstreamModelEffort(
          normalizedModel,
          clampReasoningEffortForModel(
            normalizeReasoningEffort(resolveReasoningEffort(req)), normalizedModel))

\* effort suffixes a model name studied may carry, one after the other
MaxSuffixes == 1

\* model names before any suffix: the canonical ids, the empty string, a
\* bare "codex" and two names of other families
ModelBases == supportedModelIDs \cup {<<>>, <<"codex">>, <<"gpt", "-", "4">>, <<"o3">>}

UpperPiece(p) == CASE p = "gpt" -> "GPT" [] p = "codex" -> "CODEX" [] OTHER -> p

\* a base as it is, in upper case, and behind a vendor prefix
DecoratedBases ==
    ModelBases \cup {[i \in 1 .. Len(b) |-> UpperPiece(b[i])] : b \in ModelBases}
               \cup {<<"o3", "-">> \o b : b \in ModelBases}

SuffixPieces == {Minimal, Low, Medium, High, XHigh, <<"HIGH">>}

RECURSIVE WithSuffixes(_)
WithSuffixes(k) ==
    IF k = 0 THEN DecoratedBases
    ELSE WithSuffixes(k - 1) \cup
         {s \o <<"-">> \o e : s \in WithSuffixes(k - 1), e \in SuffixPieces}

\* the model names studied, bare and wrapped in white space
ModelInputs ==
    WithSuffixes(MaxSuffixes) \cup {<<" ">> \o s \o <<" ">> : s \in WithSuffixes(MaxSuffixes)}

\* values of the reasoning_effort field studied (<<>>: absent)
EffortFieldInputs ==
    {<<>>, <<Low>>, <<XHigh>>, <<Minimal>>, <<<<"none">>>>, <<<<"HIGH">>>>,
     <<<<"o3">>>>, <<<<" ", "medium", " ">>>>, <<<<" ">>>>}

\* values of the reasoning.effort field studied (<<>>: absent)
NestedEffortInputs == {<<>>, <<High>>, <<Minimal>>}

\* nothing computed yet
NoBodies == [chat |-> <<>>, resp |-> <<>>, norm |-> <<>>]

\* POST /v1/chat/completions: buildCodexRequestBody
EffortChat ==
    /\ mode = "effort" /\ fnOut.chat = <<>>
    /\ fnOut' = [fnOut EXCEPT !.chat = <<buildCodexRequestBody(fnIn)>>]
    /\ UNCHANGED <<sseVars, authVars, lifeVars, fnIn>>

\* POST /v1/responses: transformResponsesRequestBody
EffortResponses ==
    /\ mode = "effort" /\ fnOut.resp = <<>>
    /\ fnOut' = [fnOut EXCEPT !.resp = <<transformResponsesRequestBody(fnIn)>>]
    /\ UNCHANGED <<sseVars, authVars, lifeVars, fnIn>>

\* normalizeModel applied to the model name, then to its own result
EffortNormalize ==
    /\ mode = "effort" /\ Len(fnOut.norm) < 2
    /\ fnOut' = [fnOut EXCEPT !.norm =
                   Append(@, normalizeModel(IF @ = <<>> THEN FieldString(fnIn.model)
                                            ELSE @[Len(@)]))]
    /\ UNCHANGED <<sseVars, authVars, lifeVars, fnIn>>

InitEffort ==
    /\ mode = "effort" /\ SseAtRest /\ AuthAtRest /\ LifeAtRest
    /\ \E m \in {<<>>} \cup {<<s>> : s \in ModelInputs},
          re \in EffortFieldInputs, ne \in NestedEffortInputs :
         fnIn = [model |-> m, reasoning_effort |-> re, effort |-> ne]
    /\ fnOut = NoBodies

NextEffort == EffortChat \/ EffortResponses \/ EffortNormalize

SpecEffort == InitEffort /\ [][NextEffort]_vars

\* ------------------------------------------------------------ replaceNames
SeqsUpTo(S, n) == UNION {[1 .. k -> S] : k \in 0 .. n}

\* longest text (in pieces) studied
MaxText == 4

\* the names replaced, in the order of the list, and their replacement;
\* a text is a sequence of pieces and a name is the pieces that spell it
namesToReplace ==
    << <<"Z", "ed">>, <<"C", "line">>, <<"Roo">>, <<"GitHub", " ", "C", "opilot">>,
       <<"C", "opilot">>, <<"C", "ursor">>, <<"Microsoft">>, <<"C", "opilot">> >>

Codex == <<"C", "odex">>

TextPieces ==
    {"Z", "ed", "C", "line", "Roo", "GitHub", " ", "opilot", "ursor", "Microsoft",
     "odex", "hi"}

RECURSIVE ReplaceFirst(_, _, _)
ReplaceFirst(s, old, new) ==
    IF Len(s) < Len(old) THEN s
    ELSE IF SubSeq(s, 1, Len(old)) = old
    THEN new \o SubSeq(s, Len(old) + 1, Len(s))
    ELSE <<Head(s)>> \o ReplaceFirst(Tail(s), old, new)

\* strings.Replace(s, old, new, -1): every non-overlapping occurrence, from
\* the left
RECURSIVE Replace(_, _, _)
Replace(s, old, new) ==
    IF Len(s) < Len(old) THEN s
    ELSE IF SubSeq(s, 1, Len(old)) = old
    THEN new \o Replace(SubSeq(s, Len(old) + 1, Len(s)), old, new)
    ELSE <<Head(s)>> \o Replace(Tail(s), old, new)

RECURSIVE ReplaceNamesFrom(_, _)
ReplaceNamesFrom(input, i) ==
    IF i > Len(namesToReplace) THEN input
    ELSE ReplaceNamesFrom(Replace(input, namesToReplace[i], Codex), i + 1)

replaceNames(input) == ReplaceNamesFrom(input, 1)

\* some name of the list occurs in the text
HasName(t) == \E i \in 1 .. Len(namesToReplace) : Contains(t, namesToReplace[i])

NoNames == [once |-> <<>>, twice |-> <<>>]

\* replaceNames applied to the text
NamesOnce ==
    /\ mode = "names" /\ fnOut = NoNames
    /\ fnOut' = [fnOut EXCEPT !.once = <<replaceNames(fnIn.text)>>]
    /\ UNCHANGED <<sseVars, authVars, lifeVars, fnIn>>

\* replaceNames applied to its own result
NamesTwice ==
    /\ mode = "names" /\ fnOut.once # <<>> /\ fnOut.twice = <<>>
    /\ fnOut' = [fnOut EXCEPT !.twice = <<replaceNames(fnOut.once[1])>>]
    /\ UNCHANGED <<sseVars, authVars, lifeVars, fnIn>>

InitNames ==
    /\ mode = "names" /\ SseAtRest /\ AuthAtRest /\ LifeAtRest
    /\ fnIn \in {[text |-> t] : t \in SeqsUpTo(TextPieces, MaxText)}
    /\ fnOut = NoNames

NextNames == NamesOnce \/ NamesTwice

SpecNames == InitNames /\ [][NextNames]_vars

\* ------------------------------------------------ the upstream request body
\* longest messages / input array studied
MaxMessages == 2

\* two texts: one free of listed names, one that is a listed name
Hi == <<"hi">>

RooText == <<"Roo">>

\* the content of a message: a plain string (texts holds it), an array of
\* text parts, or none
Content(k, ts) == [kind |-> k, texts |-> ts]

NoContent == Content("none", <<>>)

Contents ==
    {Content("string", <<t>>) : t \in {<<>>, Hi, RooText}}
      \cup {Content("parts", ts) : ts \in {<<>>, <<Hi>>, <<Hi, RooText>>}}

\* An inbound message or input item: a JSON object with its role ("" when
\* absent), its content, its tool calls (assistant) and its tool_call_id
\* (tool); or something that is no object.
Msg(r, c, n, id) == [map |-> TRUE, role |-> r, content |-> c, calls |-> n, callid |-> id]

NotAMap == [map |-> FALSE, role |-> "", content |-> NoContent, calls |-> 0, callid |-> ""]

ChatMessages ==
    {Msg(r, c, 0, "") : r \in {"system", "user"}, c \in Contents}
      \cup {Msg("assistant", Content("string", <<t>>), n, "") : t \in {<<>>, Hi}, n \in {0, 1}}
      \cup {Msg("tool", Content("string", <<Hi>>), 0, id) : id \in {"", "c1"}}
      \cup {Msg("System", Content("string", <<Hi>>), 0, ""),
            Msg("developer", Content("string", <<Hi>>), 0, ""), NotAMap}

ResponsesItems ==
    {Msg(r, c, 0, "") : r \in {"system", "user"}, c \in Contents}
      \cup {Msg("developer", Content("string", <<Hi>>), 0, ""), NotAMap}

\* an element of the upstream input array; from is the position of the
\* inbound message it was made of, 0 for a message the proxy adds
Item(ty, r, c, id, n) == [type |-> ty, role |-> r, content |-> c, callid |-> id, from |-> n]

RECURSIVE Flatten(_)
Flatten(ss) == IF ss = <<>> THEN <<>> ELSE Head(ss) \o Flatten(Tail(ss))

\* strings.Join
RECURSIVE Join(_, _)
Join(ss, sep) ==
    IF ss = <<>> THEN <<>>
    ELSE IF Len(ss) = 1 THEN ss[1]
    ELSE ss[1] \o sep \o Join(Tail(ss), sep)

NonEmpty(ts) == SelectSeq(ts, LAMBDA t : t # <<>>)

Sanitized(ts) == [i \in 1 .. Len(ts) |-> replaceNames(ts[i])]

\* collectTextSegments(content, true)
collectTextSegments(c) ==
    IF c.kind = "string"
    THEN IF TrimSpace(c.texts[1]) = <<>> THEN <<>>
         ELSE <<replaceNames(TrimSpace(c.texts[1]))>>
    ELSE IF c.kind = "parts" THEN Sanitized(NonEmpty(c.texts))
    ELSE <<>>

\* collectToolOutput
collectToolOutput(c) ==
    IF c.kind = "string" THEN c.texts[1]
    ELSE IF c.kind = "parts" THEN Join(NonEmpty(c.texts), <<"\n">>)
    ELSE <<>>

\* extractInstructions, one message: what it adds to parts
SystemPart(m) ==
    IF ~(m.map /\ m.role = "system") THEN <<>>
    ELSE IF m.content.kind = "string"
    THEN IF m.content.texts[1] = <<>> THEN <<>> ELSE <<replaceNames(m.content.texts[1])>>
    ELSE IF m.content.kind = "parts"
    THEN IF NonEmpty(m.content.texts) = <<>> THEN <<>>
         ELSE <<Join(Sanitized(NonEmpty(m.content.texts)), <<"\n">>)>>
    ELSE <<>>

\* extractInstructions: the texts of the system messages, joined
extractInstructions(msgs) ==
    TrimSpace(Join(Flatten([i \in 1 .. Len(msgs) |-> SystemPart(msgs[i])]), <<"\n\n">>))

ChatItemsAnyRole(m, i) ==
    IF ~m.map THEN <<>>
    ELSE <<Item("message", m.role, Content("parts", collectTextSegments(m.content)), "", i)>>

\* buildCodexInputMessages, the switch on role: what message i adds
ChatItems(m, i) ==
    IF ~m.map THEN <<>>
    ELSE IF m.role = "user"
    THEN IF collectTextSegments(m.content) = <<>> THEN <<>>
         ELSE <<Item("message", "user", Content("parts", collectTextSegments(m.content)), "", i)>>
    ELSE IF m.role = "assistant"
    THEN (IF collectTextSegments(m.content) = <<>> THEN <<>>
          ELSE <<Item("message", "assistant",
                      Content("parts", collectTextSegments(m.content)), "", i)>>)
         \o [k \in 1 .. m.calls |-> Item("function_call", "", NoContent, "call", i)]
    ELSE IF m.role = "tool"
    THEN IF m.callid = "" THEN <<>>
         ELSE <<Item("function_call_output", "",
                     Content("string", <<collectToolOutput(m.content)>>), m.callid, i)>>
    ELSE <<>>

BuildInputSystemLast(msgs) ==
    Flatten([i \in 1 .. Len(msgs) |-> ChatItems(msgs[i], i)])
      \o <<Item("message", "user", Content("parts", <<extractInstructions(msgs)>>), "", 0)>>

\* buildCodexInputMessages: the system prompt as a user message, then the
\* messages in order
buildCodexInputMessages(msgs) ==
    <<Item("message", "user", Content("parts", <<extractInstructions(msgs)>>), "", 0)>>
      \o Flatten([i \in 1 .. Len(msgs) |-> ChatItems(msgs[i], i)])

inversePrompt == <<"inverse prompt">>

codexInstructionsPrefix == <<"codex prefix">>

\* buildCodexRequestBody: body["input"], the greeting first
ChatInput(msgs) ==
    <<Item("message", "user", Content("parts", <<inversePrompt>>), "", 0)>>
      \o buildCodexInputMessages(msgs)

\* extractFirstUserText over body["input"]: the first non-blank text part of
\* a user entry whose content is an array
FirstUserTexts(input) ==
    Flatten([i \in 1 .. Len(input) |->
               IF input[i].type # "raw" /\ input[i].role = "user"
                  /\ input[i].content.kind = "parts"
               THEN SelectSeq(input[i].content.texts, LAMBDA t : TrimSpace(t) # <<>>)
               ELSE <<>>])

extractFirstUserText(input) ==
    IF FirstUserTexts(input) = <<>> THEN <<>> ELSE replaceNames(FirstUserTexts(input)[1])

\* derivePromptCacheKey: <<>> when the key is omitted, else the hashed
\* payload (the hash taken as injective)
derivePromptCacheKey(model, instructions, firstUserText) ==
    IF TrimSpace(model) = <<>> /\ TrimSpace(instructions) = <<>>
       /\ TrimSpace(firstUserText) = <<>>
    THEN <<>>
    ELSE <<TrimSpace(model) \o <<"\n">> \o TrimSpace(instructions) \o <<"\n">>
             \o TrimSpace(firstUserText)>>

\* body["stream"] of the Responses body: never assigned, the caller's value
\* (or none) goes upstream
ResponsesStream(req) == req.flags.stream

\* buildCodexRequestBody: the upstream body of POST /v1/chat/completions
ChatBody(req) ==
    LET normalizedModel == normalizeModel(resolveRequestModel(req))
        input == ChatInput(req.items)
    IN  [model |-> normalizedModel,
         instructions |-> codexInstructionsPrefix,
         input |-> input,
         store |-> "false", stream |-> "true",
         include |-> "reasoning.encrypted_content",
         key |-> derivePromptCacheKey(normalizedModel, codexInstructionsPrefix,
                                      extractFirstUserText(input))]

\* an input item passed on as it came
Kept(m, i) == IF m.map THEN Item("item", m.role, m.content, "", i)
              ELSE Item("raw", "", NoContent, "", i)

\* transformResponsesRequestBody: userInstr
UserInstr(req) ==
    IF req.instructions = <<>> THEN <<>> ELSE TrimSpace(req.instructions[1])

IsSystem(m) == m.map /\ m.role = "system"

\* transformResponsesRequestBody: systemText, assigned anew at every system
\* item from the text parts of its content array
SystemText(inSlice) ==
    LET sys == SelectSeq(inSlice, IsSystem)
    IN  IF sys = <<>> THEN <<>>
        ELSE IF sys[Len(sys)].content.kind = "parts"
        THEN Join(NonEmpty(sys[Len(sys)].content.texts), <<"\n\n">>)
        ELSE <<>>

\* a body["input"] that is a JSON string, which the Responses API accepts in
\* place of the array: held as the one element of items, isArray FALSE
StringInput == [map |-> FALSE, role |-> "", content |-> Content("string", <<Hi>>),
                calls |-> 0, callid |-> ""]

\* existingInput.([]interface{}): a body["input"] that is no array yields no
\* element, and body["input"] is assigned the empty allInstructions
InSlice(req) == IF req.isArray THEN req.items ELSE <<>>

\* transformResponsesRequestBody: body["instructions"]
ResponsesInstructions(req) ==
    IF UserInstr(req) # <<>> THEN UserInstr(req)
    ELSE IF SystemText(InSlice(req)) # <<>> THEN replaceNames(SystemText(InSlice(req)))
    ELSE <<>>

\* sanitizeResponsesInput, one element: the text parts of a content array
\* go through replaceNames
SanitizeItem(it) ==
    IF it.type # "raw" /\ it.content.kind = "parts"
    THEN [it EXCEPT !.content.texts =
            [k \in 1 .. Len(it.content.texts) |->
               IF it.content.texts[k] # <<>> THEN replaceNames(it.content.texts[k])
               ELSE <<>>]]
    ELSE it

\* sanitizeResponsesInput: drops the elements whose role is "system"
sanitizeResponsesInput(input) ==
    LET kept == SelectSeq(input, LAMBDA it : it.role # "system")
    IN  [i \in 1 .. Len(kept) |-> SanitizeItem(kept[i])]

\* transformResponsesRequestBody: body["input"]
ResponsesInput(req) ==
    LET idx == SelectSeq([i \in 1 .. Len(InSlice(req)) |-> i],
                         LAMBDA i : ~IsSystem(InSlice(req)[i]))
        all == [k \in 1 .. Len(idx) |-> Kept(InSlice(req)[idx[k]], idx[k])]
        developerMsg ==
          Item("", "developer",
               Content("string", <<replaceNames(SystemText(InSlice(req)))>>), "", 0)
    IN  sanitizeResponsesInput(
          IF UserInstr(req) # <<>> /\ SystemText(InSlice(req)) # <<>>
          THEN <<developerMsg>> \o all
          ELSE all)

\* transformResponsesRequestBody: the upstream body of POST /v1/responses
ResponsesBody(req) ==
    LET normalizedModel == normalizeModel(resolveRequestModel(req))
        input == ResponsesInput(req)
    IN  [model |-> normalizedModel,
         instructions |-> ResponsesInstructions(req),
         input |-> input,
         store |-> "false", stream |-> ResponsesStream(req),
         include |-> "reasoning.encrypted_content",
         key |-> IF req.cacheKey # <<>> THEN req.cacheKey
                 ELSE derivePromptCacheKey(normalizedModel, ResponsesInstructions(req),
                                           extractFirstUserText(input))]

\* what the caller put in store, stream and include
Flags(st, sm, inc) == [store |-> st, stream |-> sm, include |-> inc]

FlagChoices == {Flags("absent", "absent", "absent"), Flags("true", "false", "other")}

InstructionChoices == {<<>>, <<<<" ">>>>, <<<<" ", "hi">>>>, <<RooText>>}

ChatRequest(model, ms, fl) ==
    [kind |-> "chat", model |-> model, isArray |-> TRUE, items |-> ms,
     instructions |-> <<>>, flags |-> fl, cacheKey |-> <<>>]

ResponsesRequest(model, arr, ms, ins, fl, key) ==
    [kind |-> "responses", model |-> model, isArray |-> arr, items |-> ms,
     instructions |-> ins, flags |-> fl, cacheKey |-> key]

\* the inbound bodies studied, with at most n messages or input items
InputRequests(n) ==
    {ChatRequest(<<modelGPT51>>, ms, fl) :
       ms \in SeqsUpTo(ChatMessages, n), fl \in FlagChoices}
      \cup {ResponsesRequest(<<modelGPT51>>, TRUE, ms, ins, fl, key) :
              ms \in SeqsUpTo(ResponsesItems, n), ins \in InstructionChoices,
              fl \in FlagChoices, key \in {<<>>, <<<<"k">>>>}}
      \cup {ResponsesRequest(<<modelGPT51>>, FALSE, ms, ins, fl, <<>>) :
              ms \in {<<>>, <<StringInput>>},
              ins \in InstructionChoices, fl \in FlagChoices}

\* POST /v1/chat/completions: the upstream body
InputChat ==
    /\ mode = "input" /\ fnIn.kind = "chat" /\ fnOut = <<>>
    /\ fnOut' = <<ChatBody(fnIn)>>
    /\ UNCHANGED <<sseVars, authVars, lifeVars, fnIn>>

\* POST /v1/responses: the upstream body
InputResponses ==
    /\ mode = "input" /\ fnIn.kind = "responses" /\ fnOut = <<>>
    /\ fnOut' = <<ResponsesBody(fnIn)>>
    /\ UNCHANGED <<sseVars, authVars, lifeVars, fnIn>>

InitInput ==
    /\ mode = "input" /\ SseAtRest /\ AuthAtRest /\ LifeAtRest
    /\ fnIn \in InputRequests(MaxMessages)
    /\ fnOut = <<>>

NextInput == InputChat \/ InputResponses

SpecInput == InitInput /\ [][NextInput]_vars

\* ------------------------------------------------------ prompt_cache_key
Bye == <<"bye">>

UserMessage(c) == Msg("user", c, 0, "")

\* the upstream body of a request, by its entry point
UpstreamBody(req) == IF req.kind = "chat" THEN ChatBody(req) ELSE ResponsesBody(req)

\* pairs of requests are studied: bodies with at most one user message
KeyRequests ==
    {ChatRequest(<<m>>, ms, Flags("absent", "absent", "absent")) :
       m \in {modelGPT5, modelGPT51},
       ms \in {<<>>, <<UserMessage(Content("string", <<Hi>>))>>,
               <<UserMessage(Content("string", <<Bye>>))>>}}
      \cup {ResponsesRequest(<<m>>, TRUE, ms, ins, Flags("absent", "absent", "absent"), <<>>) :
              m \in {modelGPT5, modelGPT51},
              ms \in {<<>>, <<UserMessage(Content("parts", <<Hi>>))>>,
                      <<UserMessage(Content("parts", <<Bye>>))>>},
              ins \in {<<>>, <<Hi>>}}

NoKeys == [a |-> <<>>, b |-> <<>>]

\* the first request is transformed; its prompt_cache_key is kept
KeyOfFirst ==
    /\ mode = "key" /\ fnOut.a = <<>>
    /\ fnOut' = [fnOut EXCEPT !.a = <<UpstreamBody(fnIn.a)>>]
    /\ UNCHANGED <<sseVars, authVars, lifeVars, fnIn>>

\* the second request is transformed
KeyOfSecond ==
    /\ mode = "key" /\ fnOut.a # <<>> /\ fnOut.b = <<>>
    /\ fnOut' = [fnOut EXCEPT !.b = <<UpstreamBody(fnIn.b)>>]
    /\ UNCHANGED <<sseVars, authVars, lifeVars, fnIn>>

InitKey ==
    /\ mode = "key" /\ SseAtRest /\ AuthAtRest /\ LifeAtRest
    /\ fnIn \in {[a |-> x, b |-> y] : x \in KeyRequests, y \in KeyRequests}
    /\ fnOut = NoKeys

NextKey == KeyOfFirst \/ KeyOfSecond

SpecKey == InitKey /\ [][NextKey]_vars

\* ------------------------------------------------ POST /admin/credentials
\* posts to the admin endpoint studied
MaxPosts == 2

\* the stores main can configure: the file store behind an OAuthFetcher,
\* and the environment store
StoreKinds == {"fs", "env"}

\* the type assertion to OAuthCredentialsFetcher: the OAuthFetcher and the
\* environment store both have GetFullCredentials and UpdateTokens
IsOAuthFetcher(kind) == kind \in {"fs", "env"}

\* the decoded body: parsed is FALSE for a body that is no JSON object; a
\* field that is missing, empty or zero decodes to 0
PostBodies ==
    {[parsed |-> p, access |-> a, refresh |-> r, expiresAt |-> e] :
       p \in BOOLEAN, a \in {0, 7}, r \in {0, 8}, e \in {0, 9000}}

\* UpdateTokens of the configured store returns nil: the environment store
\* always fails; the file store needs the file and a successful write
UpdateSucceeds(kind, ioOk) == kind = "fs" /\ store.present /\ ioOk

\* credentialsHandler: the status answered and the UpdateTokens calls made
CredentialsAnswer(kind, body, ioOk) ==
    IF ~IsOAuthFetcher(kind) THEN [status |-> 400, calls |-> <<>>]
    ELSE IF ~body.parsed THEN [status |-> 400, calls |-> <<>>]
    ELSE IF body.access = 0 \/ body.refresh = 0 \/ body.expiresAt = 0
    THEN [status |-> 400, calls |-> <<>>]
    ELSE [status |-> IF UpdateSucceeds(kind, ioOk) THEN 200 ELSE 500,
          calls |-> <<<<body.access, body.refresh, body.expiresAt>>>>]

\* validateCredentialsAtStartup logs and returns; the server then listens
SeedStartup ==
    /\ mode = "seed" /\ ~fnOut.started
    /\ fnOut' = [fnOut EXCEPT !.started = TRUE]
    /\ UNCHANGED <<sseVars, authVars, lifeVars, fnIn>>

\* POST /admin/credentials
CredentialsPost ==
    /\ mode = "seed" /\ fnOut.started /\ Len(fnOut.posts) < MaxPosts
    /\ \E body \in PostBodies, ioOk \in BOOLEAN :
         LET ans == CredentialsAnswer(fnIn.kind, body, ioOk)
         IN  /\ store' = IF ans.status = 200
                         THEN StoreUpdate(body.access, body.refresh, body.expiresAt, ioOk)
                         ELSE store
             /\ clientStatus' = ans.status
             /\ fnOut' = [fnOut EXCEPT
                            !.posts = Append(@, [body |-> body, ioOk |-> ioOk,
                                                 status |-> ans.status,
                                                 calls |-> ans.calls]),
                            !.full = <<>>]
    /\ UNCHANGED <<sseVars, lifeVars, fnIn, now, mu, cs, issued, rpc, token, postLog,
                   forceLog, updLog, nadmin>>

\* GetFullCredentials of the configured store after the posts: an error
\* (present FALSE) for the environment store and for a missing file
SeedGetFull ==
    /\ mode = "seed" /\ fnOut.started /\ fnOut.full = <<>>
    /\ fnOut' = [fnOut EXCEPT !.full = <<IF fnIn.kind = "fs" THEN store ELSE NoCreds>>]
    /\ UNCHANGED <<sseVars, authVars, lifeVars, fnIn>>

InitSeed ==
    /\ mode = "seed" /\ SseAtRest /\ LifeAtRest
    /\ store \in InitialStores
    /\ now = 0 /\ mu = "free" /\ cs = [c \in Callers |-> NoCall]
    /\ issued = 0 /\ rpc = "idle" /\ token = 0 /\ postLog = <<>> /\ forceLog = <<>>
    /\ updLog = <<>> /\ clientStatus = 0 /\ nadmin = 0
    /\ fnIn \in {[kind |-> k, start |-> store] : k \in StoreKinds}
    /\ fnOut = [started |-> FALSE, posts |-> <<>>, full |-> <<>>]

NextSeed == SeedStartup \/ CredentialsPost \/ SeedGetFull

SpecSeed == InitSeed /\ [][NextSeed]_vars

\* ------------------------------------- startup: auto-mode migration
\* the token pairs a source holds: the legacy file pair 0, the keychain
\* pair 50; a target file found at startup holds pair 9
SourcePairs == [legacy |-> 0, keychain |-> 50, target |-> 9]

SourceCreds(pair, expiresIn) ==
    [present |-> TRUE, access |-> pair, refresh |-> pair, expiresAt |-> expiresIn * 1000]

\* what startup finds: the target file, the legacy file (absent, readable
\* or not parseable), the keychain entry (readable or not) and the
\* -disable-migrate-refresh flag
MigrationInputs ==
    [targetExists : BOOLEAN, legacy : {"absent", "ok", "bad"},
     keychain : {"ok", "bad"}, disableRefresh : BOOLEAN,
     expiresIn : ExpiresInChoices]

MigrationSourceKeychainFirst(cfg) == "keychain"

\* credentials.FileExists(legacyPath) chooses the source
MigrationSource(cfg) == IF cfg.legacy # "absent" THEN "legacy" ELSE "keychain"

\* NewOAuthFetcher: its own mutex (st: what its background task is doing
\* under it) and its own background task, running until Close
NewOAuthFetcher(by) == [by |-> by, closed |-> FALSE, st |-> "idle", creds |-> NoCreds]

Migrating(pc) == mode = "migrate" /\ fnOut.pc = pc

MigLog(op, what, ok) == [op |-> op, what |-> what, ok |-> ok]

\* maybeMigrateCredentials: FileExists(targetPath) ends the migration
MigrateCheck ==
    /\ Migrating("check")
    /\ fnOut' = [fnOut EXCEPT !.pc = IF store.present THEN "main" ELSE "read"]
    /\ UNCHANGED <<sseVars, authVars, lifeVars, fnIn>>

\* the legacy file is read when it exists, else the keychain; a failed read
\* ends the migration
MigrateRead ==
    /\ Migrating("read")
    /\ LET src == MigrationSource(fnIn)
           ok == IF src = "legacy" THEN fnIn.legacy = "ok" ELSE fnIn.keychain = "ok"
           pair == IF src = "legacy" THEN SourcePairs.legacy ELSE SourcePairs.keychain
       IN  fnOut' = [fnOut EXCEPT
                       !.pc = IF ok THEN "write" ELSE "main",
                       !.mig = Append(@, MigLog("read", src, ok)),
                       !.src = IF ok THEN SourceCreds(pair, fnIn.expiresIn) ELSE NoCreds]
    /\ UNCHANGED <<sseVars, authVars, lifeVars, fnIn>>

\* credentials.InitFromOAuth(targetPath, migratedCreds); a failed write ends
\* the migration, and so does the flag
MigrateWrite ==
    /\ Migrating("write")
    /\ \E ok \in BOOLEAN :
         /\ store' = IF ok THEN fnOut.src ELSE store
         /\ fnOut' = [fnOut EXCEPT
                        !.pc = IF ok /\ ~fnIn.disableRefresh THEN "refresh" ELSE "main",
                        !.mig = Append(@, MigLog("write", fnOut.src.access, ok))]
    /\ UNCHANGED <<sseVars, lifeVars, fnIn, now, mu, cs, issued, rpc, token, postLog,
                   forceLog, updLog, clientStatus, nadmin>>

\* NewOAuthFetcher on the target file and RefreshCredentials; the function
\* returns and the fetcher is left as it is
MigrateRefresh ==
    /\ Migrating("refresh")
    /\ \E rpcOk \in BOOLEAN, ioOk \in BOOLEAN, e \in ExpiresInChoices :
         LET done == rpcOk /\ issued < MaxRefreshes
         IN  /\ issued' = IF done THEN issued + 1 ELSE issued
             /\ store' = IF done
                         THEN StoreUpdate(issued + 1, issued + 1,
                                          CalculateExpiresAt(e, now), ioOk)
                         ELSE store
             /\ fnOut' = [fnOut EXCEPT
                            !.pc = "main",
                            !.fetchers = Append(@, NewOAuthFetcher("migration")),
                            !.mig = Append(@, MigLog("refresh", store.refresh, done))]
    /\ UNCHANGED <<sseVars, lifeVars, fnIn, now, mu, cs, rpc, token, postLog,
                   forceLog, updLog, clientStatus, nadmin>>

\* main: NewFSCredentialsFetcher(fsPath) and NewOAuthFetcher, the fetcher the
\* server is given; validateCredentialsAtStartup calls its GetCredentials,
\* which refreshes a token inside the expiry buffer; the server listens
MainCreateFetcher ==
    /\ Migrating("main")
    /\ \E rpcOk \in BOOLEAN, ioOk \in BOOLEAN, e \in ExpiresInChoices :
         LET due == store.present /\ TokenExpired(store.expiresAt, now)
             done == due /\ rpcOk /\ issued < MaxRefreshes
         IN  /\ issued' = IF done THEN issued + 1 ELSE issued
             /\ store' = IF done
                         THEN StoreUpdate(issued + 1, issued + 1,
                                          CalculateExpiresAt(e, now), ioOk)
                         ELSE store
             /\ fnOut' = [fnOut EXCEPT
                            !.pc = "serving",
                            !.fetchers = Append(@, NewOAuthFetcher("main")),
                            !.bg = IF due
                                   THEN Append(@, [by |-> Len(fnOut.fetchers) + 1,
                                                   used |-> store.refresh, ok |-> done])
                                   ELSE @]
    /\ UNCHANGED <<sseVars, lifeVars, fnIn, now, mu, cs, rpc, token, postLog,
                   forceLog, updLog, clientStatus, nadmin>>

\* refresh attempts of the running server that are followed
MaxBgRefreshes == 2

\* a fetcher's ticker fires: checkAndRefreshToken locks the fetcher's own
\* mutex, reads the file and judges the expiry
MigBgLoad(i) ==
    /\ Migrating("serving") /\ i \in DOMAIN fnOut.fetchers
    /\ ~fnOut.fetchers[i].closed /\ fnOut.fetchers[i].st = "idle"
    /\ Len(fnOut.bg) < MaxBgRefreshes
    /\ store.present /\ TokenExpired(store.expiresAt, now)
    /\ fnOut' = [fnOut EXCEPT !.fetchers[i].st = "loaded", !.fetchers[i].creds = store]
    /\ UNCHANGED <<sseVars, authVars, lifeVars, fnIn>>

\* checkAndRefreshToken: RefreshToken with the refresh token it read, then
\* UpdateTokens and Unlock
MigBgRefresh(i) ==
    /\ Migrating("serving") /\ i \in DOMAIN fnOut.fetchers
    /\ fnOut.fetchers[i].st = "loaded"
    /\ \E rpcOk \in BOOLEAN, ioOk \in BOOLEAN, e \in ExpiresInChoices :
         LET done == rpcOk /\ issued < MaxRefreshes
         IN  /\ issued' = IF done THEN issued + 1 ELSE issued
             /\ store' = IF done
                         THEN StoreUpdate(issued + 1, issued + 1,
                                          CalculateExpiresAt(e, now), ioOk)
                         ELSE store
             /\ fnOut' = [fnOut EXCEPT
                            !.fetchers[i].st = "idle", !.fetchers[i].creds = NoCreds,
                            !.bg = Append(@, [by |-> i, used |-> fnOut.fetchers[i].creds.refresh,
                                              ok |-> done])]
    /\ UNCHANGED <<sseVars, lifeVars, fnIn, now, mu, cs, rpc, token, postLog,
                   forceLog, updLog, clientStatus, nadmin>>

\* time passes while the server runs
MigTick ==
    /\ Migrating("serving") /\ now < MaxTicks * TickMs
    /\ now' = now + TickMs
    /\ UNCHANGED <<sseVars, fnVars, lifeVars, store, mu, cs, issued, rpc, token, postLog,
                   forceLog, updLog, clientStatus, nadmin>>

InitMigrate ==
    /\ mode = "migrate" /\ SseAtRest /\ LifeAtRest
    /\ fnIn \in MigrationInputs
    /\ store = IF fnIn.targetExists THEN SourceCreds(SourcePairs.target, fnIn.expiresIn)
               ELSE NoCreds
    /\ now = 0 /\ mu = "free" /\ cs = [c \in Callers |-> NoCall]
    /\ issued = 0 /\ rpc = "idle" /\ token = 0 /\ postLog = <<>> /\ forceLog = <<>>
    /\ updLog = <<>> /\ clientStatus = 0 /\ nadmin = 0
    /\ fnOut = [pc |-> "check", mig |-> <<>>, src |-> NoCreds, fetchers |-> <<>>,
                bg |-> <<>>]

NextMigrate ==
    \/ MigrateCheck \/ MigrateRead \/ MigrateWrite \/ MigrateRefresh
    \/ MainCreateFetcher
    \/ \E i \in 1 .. 2 : MigBgLoad(i)
    \/ \E i \in 1 .. 2 : MigBgRefresh(i)
    \/ MigTick

SpecMigrate == InitMigrate /\ [][NextMigrate]_vars

\* ------------------------------------------------ claims on the rewriter
Rewriting == mode = "rewrite"

Count(seq, P(_)) == Len(SelectSeq(seq, P))

IsDone(c) == c.kind = "DONE"

\* a chunk whose delta carries role: one the transformer generated or an
\* upstream chat.completion.chunk passed through
CarriesRole(c) == c.kind = "role" \/ (c.kind = "upstream" /\ c.text = "role")

CarriesPayload(c) ==
    \/ c.kind \in {"content", "reasoning_content", "tool_start", "tool_args"}
    \/ (c.kind = "upstream" /\ c.text = "content")

Generated(c) == c.kind \notin {"upstream", "DONE"}

\* C1 (as claimed): a rewrite that read its upstream to the end and returned
\* without error has written exactly one data: [DONE].
C1_ExactlyOneDone ==
    (Rewriting /\ spc = "ok") => Count(out, IsDone) = 1

\* C2 (as claimed): data: [DONE] is the last thing written: nothing follows
\* a DONE sentinel in the output.
C2_DoneIsLast ==
    Rewriting => \A i \in 1 .. Len(out) : IsDone(out[i]) => i = Len(out)

\* C3 (as claimed): at most one written chunk carries delta.role, and it
\* precedes every written chunk carrying content, tool_calls or
\* reasoning_content -- upstream chat.completion.chunks passed through
\* included.
C3_RoleOnceAll ==
    Rewriting =>
      /\ Count(out, CarriesRole) <= 1
      /\ \A i, j \in 1 .. Len(out) :
           (CarriesRole(out[i]) /\ CarriesPayload(out[j])) => i < j

\* C3 (amended): among the chunks the transformer generates (upstream
\* chat.completion.chunks passed through verbatim set aside) at most one is
\* the role chunk, and it precedes every generated content, tool_calls or
\* reasoning_content chunk.
C3_RoleOnceGenerated ==
    Rewriting =>
      /\ Count(out, LAMBDA c : c.kind = "role") <= 1
      /\ \A i, j \in 1 .. Len(out) :
           (out[i].kind = "role" /\ Generated(out[j]) /\ CarriesPayload(out[j]))
             => i < j

\* C3 witness: one role chunk followed by generated chunks of two later
\* events, with a passed-through upstream chunk in the same stream.
C3_Witness ==
    /\ Rewriting
    /\ Count(out, LAMBDA c : c.kind = "role") = 1
    /\ Count(out, LAMBDA c : Generated(c) /\ CarriesPayload(c)) >= 2
    /\ \E i \in 1 .. Len(out) : out[i].kind = "upstream"

IsFunctionCallAdded(raw) ==
    LET p == Trimmed(raw)
    IN  p.tok = "json" /\ p.type = "response.output_item.added"
        /\ p.itype = "function_call"

\* C4: the chunk written for response.completed has finish_reason
\* "tool_calls" iff an output_item.added event with item.type function_call
\* was handed to the transformer earlier in the stream, else "stop".
C4_FinishReason ==
    Rewriting =>
      \A i \in 1 .. Len(out) :
        out[i].kind = "finish" =>
          out[i].finish =
            IF \E j \in 1 .. out[i].src - 1 : IsFunctionCallAdded(hist[j])
            THEN "tool_calls" ELSE "stop"

\* C4 witness: a finish chunk with "tool_calls" and, in another stream
\* position, the event history holding a function_call item.
C4_Witness ==
    /\ Rewriting
    /\ \E i \in 1 .. Len(out) : out[i].kind = "finish" /\ out[i].finish = "tool_calls"
    /\ \E j \in 1 .. Len(hist) : IsFunctionCallAdded(hist[j])

\* C5: chunks are written in the order of the upstream events they derive
\* from: a chunk of event i never follows a chunk of a later event j, and
\* every chunk of an event is written by the time the next event is flushed
\* (no chunk derives from an event that has not been flushed).
C5_ArrivalOrder ==
    Rewriting =>
      /\ \A i, j \in 1 .. Len(out) :
           (i < j /\ out[i].src # 0 /\ out[j].src # 0) => out[i].src <= out[j].src
      /\ \A i \in 1 .. Len(out) : out[i].src <= Len(hist)
      /\ \A i \in 1 .. Len(out) : out[i].src = 0 => i = Len(out)

\* C5 witness: chunks of two different upstream events have been written.
C5_Witness ==
    /\ Rewriting
    /\ \E i, j \in 1 .. Len(out) : out[i].src = 1 /\ out[j].src = 2
    /\ Len(out) >= 3

Unparseable(raw) == Trimmed(raw).tok \notin {"json", "[DONE]", "", " "}

\* C6 (as claimed): an event whose data is not parseable is skipped and the
\* stream goes on: the rewriter stops early only on a read or write error.
C6_BadEventSkipped ==
    (Rewriting /\ spc = "err") => (readFailed \/ writeFailed)

\* --------------------------------------------- claims on the pass-through
\* C7 (as claimed): in pass-through mode a stream read to its end has every
\* upstream event copied unchanged and in order, and ends with data: [DONE]
\* also when the upstream closed without sending one.
C7_PassThroughDone ==
    (mode = "pass" /\ spc = "ok") =>
      /\ (\A j \in 1 .. Len(hist) : Trimmed(hist[j]).tok # "[DONE]")
           => (out # <<>> /\ IsDone(out[Len(out)]))
      /\ \A i \in 1 .. Len(out) :
           out[i].kind = "event" =>
             \A k \in 1 .. Len(out[i].lines) : out[i].lines[k].data

\* ------------------------------------------------ claims on the 401 retry
Retrying == mode = "retry"

\* RefreshCredentials calls the request has made (returned or in progress)
ForcedCalls == Len(forceLog) + (IF rpc = "rc" THEN 1 ELSE 0)

\* C8: one request sends at most two upstream POSTs and forces at most one
\* refresh; the second POST is sent only after the first returned 401 and
\* the forced refresh succeeded; a 401 on the second POST is forwarded.
C8_SingleRetry ==
    Retrying =>
      /\ Len(postLog) <= 2
      /\ ForcedCalls <= 1
      /\ (rpc = "post2" \/ Len(postLog) = 2)
           => (postLog[1].status = 401 /\ forceLog = <<TRUE>>)
      /\ (Len(postLog) = 2 /\ postLog[2].status = 401)
           => (rpc = "done" /\ clientStatus = 401)

\* C8 witness: the retry was sent, came back 401 and the client got the 401.
C8_Witness ==
    /\ Retrying /\ rpc = "done" /\ Len(postLog) = 2
    /\ postLog[2].status = 401 /\ clientStatus = 401

\* C9 (as claimed): the first POST returned 401 and the forced refresh
\* failed: the client receives the original 401.
C9_RefreshFailureKeeps401 ==
    (Retrying /\ rpc = "done" /\ Len(postLog) = 1 /\ postLog[1].status = 401
       /\ forceLog = <<FALSE>>)
      => clientStatus = 401

\* first POST 401, forced refresh returned tokens, second POST 200
RefreshPath ==
    /\ Retrying /\ rpc = "done" /\ Len(postLog) = 2
    /\ postLog[1].status = 401 /\ postLog[2].status = 200
    /\ forceLog = <<TRUE>>

UpdatesBy(c, op) == Count(updLog, LAMBDA u : u.by = c /\ u.op = op)

\* C10 (as claimed): on the refresh path the request invokes the store's
\* UpdateTokens exactly once between the first and the second upstream call
\* (calls made by the background task or the admin endpoint not counted).
C10_ExactlyOneUpdate ==
    RefreshPath => UpdatesBy("req", "force") + UpdatesBy("req", "get") = 1

\* the token the request's refetch (second GetCredentials) loaded was inside
\* the 60-minute expiry buffer when it was loaded
RefetchInsideBuffer ==
    cs["req"].at >= cs["req"].creds.expiresAt - 60 * 60 * 1000

\* C10 (amended): on the refresh path the request's RefreshCredentials
\* invokes UpdateTokens exactly once between the two upstream calls, and
\* its following GetCredentials invokes it at most once more, and only when
\* the token it loaded is already inside the 60-minute expiry buffer.
C10_UpdatesOnRefreshPath ==
    RefreshPath =>
      /\ UpdatesBy("req", "force") = 1
      /\ UpdatesBy("req", "get") <= 1
      /\ UpdatesBy("req", "get") = 1 => RefetchInsideBuffer
      /\ Len(updLog) >= 1

\* C10 witness: the refresh path with UpdateTokens invoked once by the
\* forced refresh and the refetch finding the new token fresh.
C10_Witness ==
    /\ RefreshPath /\ UpdatesBy("req", "force") = 1 /\ UpdatesBy("req", "get") = 0
    /\ ~RefetchInsideBuffer


\* ------------------------------------------ claims on the OAuth fetcher
\* C11 (as claimed): every store access happens under the fetcher's mutex:
\* while a load-refresh-persist cycle holds the mutex the store is written
\* only by the step that ends that cycle, and the cycle persists over the
\* very credentials it loaded (no update made in between is overwritten).
C11_StoreUnderMutex ==
    [][(Retrying /\ mu # "free") =>
         /\ store' # store => mu' = "free"
         /\ (cs[mu].st = "refreshed" /\ mu' = "free") => store = cs[mu].creds]_vars


\* the request's GetCredentials call returns in this step
GetReturns ==
    /\ Retrying /\ cs["req"].op = "get" /\ cs["req"].st # "ret"
    /\ cs'["req"].st = "ret" /\ store.present

\* C12: GetCredentials (a) with a token outside the 60-minute buffer returns
\* the stored access token with no refresh call and no store write; it
\* starts a refresh only for a token inside the buffer, and then (b) on
\* refresh success returns the new access token and what UpdateTokens wrote
\* is the new pair with its computed expiry, (c) on refresh failure returns
\* the stale access token without an error and leaves the store unchanged.
C12_GetCredentialsCases ==
    [][/\ (GetReturns /\ cs["req"].st = "want") =>
            /\ now < store.expiresAt - 60 * 60 * 1000
            /\ ~cs'["req"].err /\ cs'["req"].token = store.access
            /\ store' = store /\ issued' = issued
       /\ (Retrying /\ cs["req"].op = "get" /\ cs["req"].st = "want"
             /\ cs'["req"].st = "loaded") =>
            now >= store.expiresAt - 60 * 60 * 1000
       /\ (GetReturns /\ cs["req"].st = "refreshed") =>
            /\ ~cs'["req"].err /\ cs'["req"].token = cs["req"].newTok
            /\ store' # store =>
                 /\ store'.access = cs["req"].newTok
                 /\ store'.refresh = cs["req"].newTok
                 /\ store'.expiresAt = ((now \div 1000) + cs["req"].expiresIn) * 1000
       /\ (GetReturns /\ cs["req"].st = "loaded") =>
            /\ ~cs'["req"].err /\ cs'["req"].token = cs["req"].creds.access
            /\ store' = store /\ issued' = issued]_vars

\* C12 witness: GetCredentials has returned a refreshed access token that
\* the store now holds.
C12_Witness ==
    /\ Retrying /\ cs["req"].st = "ret" /\ cs["req"].op = "get"
    /\ ~cs["req"].err /\ cs["req"].token >= 1
    /\ store.access = cs["req"].token
    /\ cs["req"].at >= cs["req"].creds.expiresAt - 60 * 60 * 1000

\* the expiry rule: now_ms >= expiresAtMs - 3,600,000
InsideBuffer == fnIn.now >= fnIn.expiresAt - 3600000

\* C13 (as claimed): every caller that judges expiry -- GetCredentials, the
\* background check, and the isExpired and needsRefreshSoon fields of the
\* status endpoint -- judges a token expired exactly when
\* now_ms >= expiresAtMs - 3,600,000.
C13_OneExpiryRule ==
    mode = "expiry" =>
      /\ fnOut.get # <<>> => fnOut.get[1] = InsideBuffer
      /\ fnOut.bg # <<>> => fnOut.bg[1] = InsideBuffer
      /\ fnOut.isExpired # <<>> => fnOut.isExpired[1] = InsideBuffer
      /\ fnOut.needsRefreshSoon # <<>> => fnOut.needsRefreshSoon[1] = InsideBuffer

\* C14 (as claimed): Close may be called any number of times, concurrently
\* with GetCredentials, RefreshCredentials or a background check, and the
\* process never crashes.
C14_CloseIdempotent ==
    Retrying => ~panicked

\* ------------------------------------------- claims on the admin middleware
\* the request carries Authorization: <Bearer, any case> <key> with the
\* configured key
BearerCarriesKey ==
    /\ Len(fnIn.auth) >= 2 /\ fnIn.auth[1] \in {"Bearer", "bearer"}
    /\ SubSeq(fnIn.auth, 2, Len(fnIn.auth)) = fnIn.env.key

\* the request carries X-API-Key: <key> with the configured key
XKeyCarriesKey == fnIn.xkey = fnIn.env.key

KeyConfigured == fnIn.env.ok /\ fnIn.env.key # <<>>

\* C15: the wrapped handler runs only when ADMIN_API_KEY is set and a key
\* the request presents equals it; otherwise the middleware answers 500
\* (key not configured) or 401 and nothing behind it runs: store and
\* upstream stay untouched.
C15_AdminGate ==
    mode = "admin" =>
      /\ fnOut.handled => fnOut.status = 0
      /\ fnOut.status = 0 => (KeyConfigured /\ (BearerCarriesKey \/ XKeyCarriesKey))
      /\ (fnOut.status # -1 /\ ~KeyConfigured) => fnOut.status = 500
      /\ (fnOut.status \notin {-1, 0} /\ KeyConfigured) => fnOut.status = 401
      /\ AuthAtRest

\* C15 witness: a request admitted on its X-API-Key, the handler running.
C15_Witness ==
    /\ mode = "admin" /\ fnOut.handled /\ fnIn.auth = <<>> /\ XKeyCarriesKey

\* C16 (as claimed): a request carrying the correct key in either header is
\* admitted, whatever the other header contains.
C16_EitherHeader ==
    (mode = "admin" /\ fnOut.status # -1 /\ KeyConfigured
       /\ (BearerCarriesKey \/ XKeyCarriesKey))
      => fnOut.status = 0

\* C16 (amended): a request is admitted when its Authorization header is
\* Bearer <key> (scheme in any case) with the correct, space-free key,
\* whatever X-API-Key holds, or when it has no Authorization header and
\* X-API-Key holds the correct key.
C16_HeaderPrecedence ==
    (mode = "admin" /\ fnOut.status # -1 /\ KeyConfigured
       /\ \/ (BearerCarriesKey /\ Len(fnIn.env.key) = 1)
          \/ (fnIn.auth = <<>> /\ XKeyCarriesKey))
      => fnOut.status = 0

\* C16 witness: admitted on a lower-case bearer scheme while X-API-Key
\* holds a wrong key.
C16_Witness ==
    /\ mode = "admin" /\ fnOut.status = 0
    /\ fnIn.auth = <<"bearer", "k">> /\ fnIn.xkey = <<"w">>

\* ------------------------------------ claims on model and reasoning effort
\* the upstream bodies computed so far
Bodies == {fnOut.chat[i] : i \in DOMAIN fnOut.chat} \cup {fnOut.resp[i] : i \in DOMAIN fnOut.resp}

\* the requested effort after normalisation (<<>>: unset or unknown)
RequestedEffort ==
    LET raw == IF TrimSpace(FieldString(fnIn.reasoning_effort)) # <<>>
               THEN FieldString(fnIn.reasoning_effort)
               ELSE IF TrimSpace(FieldString(fnIn.effort)) # <<>>
               THEN FieldString(fnIn.effort)
               ELSE SuffixEffort(ToLower(TrimSpace(FieldString(fnIn.model))))
    IN  normalizeReasoningEffort(raw)

\* C17 (as claimed): the clamped effort of the upstream body is a member of
\* the model's allowed efforts or unset, and unset only when the model has
\* no allowed efforts and no default.
C17_EffortClosure ==
    mode = "effort" =>
      \A b \in Bodies :
        /\ b.effort = <<>> \/ b.effort \in modelAllowedEfforts(b.model)
        /\ b.effort = <<>> =>
             (modelAllowedEfforts(b.model) = {} /\ modelDefaultEffort(b.model) = <<>>)

\* C18: for a model with a default effort the body's reasoning.effort is
\* the requested effort when the model allows it, and the model's default
\* when the requested effort is unset or not allowed.
C18_ClampToDefault ==
    mode = "effort" =>
      \A b \in Bodies :
        modelDefaultEffort(b.model) # <<>> =>
          b.effort = IF RequestedEffort \in modelAllowedEfforts(b.model)
                     THEN RequestedEffort ELSE modelDefaultEffort(b.model)

\* C18 witness: gpt-5.1-codex-mini asked for "low" gets "medium" on both
\* entry points.
C18_Witness ==
    /\ mode = "effort" /\ fnIn.model = <<modelGPT51CodexMini>>
    /\ fnIn.reasoning_effort = <<Low>>
    /\ fnOut.chat # <<>> /\ fnOut.chat[1].effort = Medium
    /\ fnOut.resp # <<>> /\ fnOut.resp[1].effort = Medium

\* C19: normalizeModel is idempotent and yields a canonical model id, and
\* the model of the upstream body is a canonical id.
C19_NormalizeIdempotent ==
    mode = "effort" =>
      /\ \A i \in DOMAIN fnOut.norm : fnOut.norm[i] \in supportedModelIDs
      /\ Len(fnOut.norm) = 2 => fnOut.norm[2] = fnOut.norm[1]
      /\ \A b \in Bodies : b.model \in supportedModelIDs

\* C19 witness: a suffixed, upper-case name normalised twice.
C19_Witness ==
    /\ mode = "effort" /\ Len(fnOut.norm) = 2
    /\ fnIn.model = <<<<"GPT", "-", "5", ".1", "-", "CODEX", "-", "max", "-", "x", "high">>>>
    /\ fnOut.norm[2] = modelGPT51CodexMax

\* a field counts as supplied when it holds a non-blank string
Supplied(f) == f # <<>> /\ TrimSpace(f[1]) # <<>>

\* the effort picked by precedence: reasoning_effort, else reasoning.effort,
\* else the effort suffix of the raw model name
PickedEffort ==
    IF Supplied(fnIn.reasoning_effort) THEN fnIn.reasoning_effort[1]
    ELSE IF Supplied(fnIn.effort) THEN fnIn.effort[1]
    ELSE LET lower == ToLower(TrimSpace(FieldString(fnIn.model)))
             ends == {e \in {Minimal, Low, Medium, High, XHigh} : HasSuffix(lower, <<"-">> \o e)}
         IN  IF ends = {} THEN <<>>
             ELSE CHOOSE e \in ends : \A o \in ends : Len(o) <= Len(e)

\* none -> low, case-folded, unknown -> unset
NormalizedPick ==
    LET e == ToLower(TrimSpace(PickedEffort))
    IN  IF e = <<"none">> THEN Low
        ELSE IF e \in {Minimal, Low, Medium, High, XHigh} THEN e
        ELSE <<>>

\* C25: the requested effort is resolved by strict precedence
\* (reasoning_effort, else reasoning.effort, else the model name's suffix),
\* normalized, clamped to the model's allowed set, and replaced by the
\* model's default effort (if any) when still unset.
C25_EffortPipeline ==
    mode = "effort" =>
      \A b \in Bodies :
        b.effort = IF NormalizedPick \in modelAllowedEfforts(b.model) THEN NormalizedPick
                   ELSE modelDefaultEffort(b.model)

\* ------------------------------------------ claims on the upstream input
\* C20: after request transformation through either entry point no element
\* of the upstream input array has role "system".
C20_SystemErasure ==
    (mode = "input" /\ fnOut # <<>>) =>
      \A i \in 1 .. Len(fnOut[1].input) : fnOut[1].input[i].role # "system"

\* C20 witness: a body that held a system message has been transformed and
\* the input array still carries its other message.
C20_Witness ==
    /\ mode = "input" /\ fnOut # <<>>
    /\ \E i \in 1 .. Len(fnIn.items) : fnIn.items[i].map /\ fnIn.items[i].role = "system"
    /\ \E i \in 1 .. Len(fnOut[1].input) :
         fnOut[1].input[i].role = "user" /\ fnOut[1].input[i].from > 0

\* --------------------------------------------------- claims on replaceNames
\* C26: replaceNames is idempotent: applying it to its own result changes
\* nothing, and after one application no name of the list is left.
C26_ReplaceNamesIdempotent ==
    (mode = "names" /\ fnOut.once # <<>>) =>
      /\ ~HasName(fnOut.once[1])
      /\ fnOut.twice # <<>> => fnOut.twice[1] = fnOut.once[1]

\* C26 witness: a text that held two names was rewritten, and the second
\* application has run on the result.
C26_Witness ==
    /\ mode = "names" /\ fnOut.twice # <<>>
    /\ Contains(fnIn.text, <<"Roo">>) /\ Contains(fnIn.text, <<"C", "opilot">>)
    /\ fnOut.once[1] # fnIn.text

\* ------------------------------------------ claims on the Responses body
Transformed(k) == mode = "input" /\ fnIn.kind = k /\ fnOut # <<>>

\* the text is in instructions or in a developer message at the head of input
Carried(t) ==
    \/ Contains(fnOut[1].instructions, t)
    \/ /\ fnOut[1].input # <<>>
       /\ fnOut[1].input[1].role = "developer"
       /\ fnOut[1].input[1].content.kind = "string"
       /\ Contains(fnOut[1].input[1].content.texts[1], t)

\* C21: in the Responses transform no system text is lost: every text of
\* every system item of the caller's input is, name-sanitized, in
\* instructions or in a developer message at the head of input.
C21_NoSystemTextLost ==
    Transformed("responses") =>
      \A i \in 1 .. Len(InSlice(fnIn)) :
        IsSystem(InSlice(fnIn)[i]) =>
          \A k \in 1 .. Len(InSlice(fnIn)[i].content.texts) :
            InSlice(fnIn)[i].content.texts[k] # <<>> =>
              Carried(replaceNames(InSlice(fnIn)[i].content.texts[k]))

\* the text of all system items of the caller's input, joined
WholeSystemText ==
    LET sys == SelectSeq(InSlice(fnIn), IsSystem)
    IN  Join(Flatten([i \in 1 .. Len(sys) |-> NonEmpty(sys[i].content.texts)]), <<"\n\n">>)

CallerInstructions == FieldString(fnIn.instructions)

\* the messages the transform added to input
AddedMessages == SelectSeq(fnOut[1].input, LAMBDA it : it.from = 0)

DeveloperFirst(t) ==
    /\ Len(AddedMessages) = 1
    /\ fnOut[1].input[1].role = "developer"
    /\ fnOut[1].input[1].content = Content("string", <<t>>)

\* C22: the Responses transform resolves instructions by four cases: caller
\* instructions and system text -> the caller's instructions, and one
\* developer message with the sanitized system text first in input; only
\* caller instructions -> them; only system text -> the sanitized system
\* text and no developer message; neither -> the empty string.
C22_InstructionCases ==
    Transformed("responses") =>
      /\ (CallerInstructions # <<>> /\ WholeSystemText # <<>>) =>
           /\ fnOut[1].instructions = CallerInstructions
           /\ DeveloperFirst(replaceNames(WholeSystemText))
      /\ (CallerInstructions # <<>> /\ WholeSystemText = <<>>) =>
           fnOut[1].instructions = CallerInstructions /\ AddedMessages = <<>>
      /\ (CallerInstructions = <<>> /\ WholeSystemText # <<>>) =>
           fnOut[1].instructions = replaceNames(WholeSystemText) /\ AddedMessages = <<>>
      /\ (CallerInstructions = <<>> /\ WholeSystemText = <<>>) =>
           fnOut[1].instructions = <<>>

\* C23: after request transformation through either entry point the
\* upstream body carries store false, stream true and include
\* ["reasoning.encrypted_content"], whatever the caller supplied.
C23_FixedFlags ==
    (mode = "input" /\ fnOut # <<>>) =>
      /\ fnOut[1].store = "false"
      /\ fnOut[1].stream = "true"
      /\ fnOut[1].include = "reasoning.encrypted_content"

\* C27: after the Responses transform every free-form text forwarded
\* upstream has been through replaceNames: the instructions and every text
\* of every remaining input item, plain string or text part, hold no listed
\* name.
C27_AllTextSanitized ==
    Transformed("responses") =>
      /\ ~HasName(fnOut[1].instructions)
      /\ \A i \in 1 .. Len(fnOut[1].input) :
           \A k \in 1 .. Len(fnOut[1].input[i].content.texts) :
             ~HasName(fnOut[1].input[i].content.texts[k])

\* ------------------------------------- claims on the Chat-Completions body
\* C24: the Chat-Completions input is ordered: the inverse-prompt user
\* message, then the one user message made of the system messages' texts,
\* then the items of the other messages in their original order.
C24_ChatInputOrder ==
    Transformed("chat") =>
      LET input == fnOut[1].input
      IN  /\ Len(input) >= 2
          /\ input[1] = Item("message", "user", Content("parts", <<inversePrompt>>), "", 0)
          /\ input[2].role = "user" /\ input[2].from = 0
          /\ Len(input[2].content.texts) = 1
          /\ \A i \in 1 .. Len(fnIn.items) :
               IsSystem(fnIn.items[i]) =>
                 \A k \in 1 .. Len(fnIn.items[i].content.texts) :
                   Contains(input[2].content.texts[1],
                            replaceNames(fnIn.items[i].content.texts[k]))
          /\ \A k \in 3 .. Len(input) :
               /\ input[k].from >= 1
               /\ ~IsSystem(fnIn.items[input[k].from])
               /\ \A l \in k .. Len(input) : input[k].from <= input[l].from

\* C24 witness: a user message came before a system message holding a
\* name; the system text leads and the user's item follows.
C24_Witness ==
    /\ Transformed("chat")
    /\ Len(fnIn.items) = 2
    /\ fnIn.items[1].map /\ fnIn.items[1].role = "user"
    /\ IsSystem(fnIn.items[2]) /\ fnIn.items[2].content = Content("string", <<RooText>>)
    /\ Len(fnOut[1].input) = 3
    /\ fnOut[1].input[2].content.texts = <<Codex>>
    /\ fnOut[1].input[3].from = 1

\* ------------------------------------------------ claims on the cache key
\* the first non-blank text of the first user message of a request
RequestFirstUserText(req) ==
    LET users == SelectSeq(req.items, LAMBDA m : m.map /\ m.role = "user")
        texts == Flatten([i \in 1 .. Len(users) |->
                            SelectSeq(users[i].content.texts,
                                      LAMBDA t : TrimSpace(t) # <<>>)])
    IN  IF texts = <<>> THEN <<>> ELSE replaceNames(texts[1])

\* (normalized model, instructions, first user text) of a transformed request
KeyTriple(req, body) == <<body.model, body.instructions, RequestFirstUserText(req)>>

\* C28: prompt_cache_key is a function of the triple (normalized model,
\* instructions, first user text) only: equal triples give equal keys and
\* different triples give different keys.
C28_KeyFollowsTriple ==
    (mode = "key" /\ fnOut.b # <<>>) =>
      (KeyTriple(fnIn.a, fnOut.a[1]) = KeyTriple(fnIn.b, fnOut.b[1])
         <=> fnOut.a[1].key = fnOut.b[1].key)

\* ------------------------------------------- claims on the admin endpoint
ValidPost(p) ==
    p.body.parsed /\ p.body.access # 0 /\ p.body.refresh # 0 /\ p.body.expiresAt # 0

\* C29: POST /admin/credentials calls UpdateTokens exactly once with the
\* supplied values when the three fields are non-empty; answers 400 without
\* calling it when one is missing, empty or zero; and answers 400 when the
\* store is not OAuth-capable, such as the environment store.
C29_CredentialsPost ==
    mode = "seed" =>
      \A i \in 1 .. Len(fnOut.posts) :
        LET p == fnOut.posts[i]
        IN  /\ (fnIn.kind = "fs" /\ ValidPost(p)) =>
                 p.calls = <<<<p.body.access, p.body.refresh, p.body.expiresAt>>>>
            /\ ~ValidPost(p) => (p.status = 400 /\ p.calls = <<>>)
            /\ fnIn.kind = "env" => (p.status = 400 /\ p.calls = <<>>)

\* C30: when the file store's file does not exist at startup the server
\* still starts, a later valid POST /admin/credentials succeeds, and a
\* following GetFullCredentials returns the seeded tokens.
C30_SeedMissingFile ==
    (mode = "seed" /\ fnIn.kind = "fs" /\ fnIn.start = NoCreds
       /\ fnOut.posts # <<>> /\ fnOut.full # <<>>) =>
      LET p == fnOut.posts[Len(fnOut.posts)]
      IN  (ValidPost(p) /\ p.ioOk) =>
            /\ p.status = 200
            /\ fnOut.full[1] = [present |-> TRUE, access |-> p.body.access,
                                refresh |-> p.body.refresh,
                                expiresAt |-> p.body.expiresAt]

\* ------------------------------------------- claims on the failing stream
\* C31 (as claimed): once the upstream read has failed part-way through a
\* stream the rewriter writes nothing further to the client: no chunk of
\* an event whose end was not read and no synthetic data: [DONE].
C31_NothingAfterReadFailure ==
    [][(Rewriting /\ readFailed) => out' = out]_vars

\* ---------------------------------------------- claims on the tool calls
\* the function_call item ids added by the events before event j
AddedBefore(j) ==
    {Trimmed(hist[k]).iid : k \in {i \in 1 .. j - 1 : IsFunctionCallAdded(hist[i])}}

\* the first event that added the item id of event j
FirstAdded(j) ==
    CHOOSE k \in 1 .. j :
      /\ IsFunctionCallAdded(hist[k]) /\ Trimmed(hist[k]).iid = Trimmed(hist[j]).iid
      /\ \A m \in 1 .. k - 1 :
           ~(IsFunctionCallAdded(hist[m]) /\ Trimmed(hist[m]).iid = Trimmed(hist[j]).iid)

\* the ordinal of the item of event j: the number of distinct item ids that
\* were added before its first appearance
OrdinalOfItem(j) == Cardinality(AddedBefore(FirstAdded(j)))

\* C33: nextToolIndex never decreases; the tool-call-start chunk of an
\* output_item.added carries the ordinal (0, 1, 2, ...) of the item id's
\* first appearance among the distinct function_call item ids of the
\* stream, a repeated item id keeping its first index; the chunk's id is the
\* item's call_id, or "call_" + item.id when call_id is absent.
C33_ToolIndices ==
    /\ [](Rewriting =>
            /\ tr.nextToolIndex = Cardinality(DOMAIN tr.toolIndexByItemID)
            /\ \A i \in 1 .. Len(out) :
                 out[i].kind = "tool_start" =>
                   LET p == Trimmed(hist[out[i].src])
                   IN  /\ out[i].idx = OrdinalOfItem(out[i].src)
                       /\ out[i].call = IF p.callid = "" THEN "call_" \o p.iid
                                        ELSE p.callid)
    /\ [][Rewriting => tr'.nextToolIndex >= tr.nextToolIndex]_vars

\* C33 witness: items fc_a, fc_b and fc_a again were added: start chunks
\* with index 0, index 1 (id "call_fc_b", no call_id upstream) and index 0
\* once more.
C33_Witness ==
    /\ Rewriting
    /\ \E i, j, k \in 1 .. Len(out) :
         /\ i < j /\ j < k
         /\ out[i].kind = "tool_start" /\ out[i].idx = 0 /\ out[i].call = "call_1"
         /\ out[j].kind = "tool_start" /\ out[j].idx = 1 /\ out[j].call = "call_fc_b"
         /\ out[k].kind = "tool_start" /\ out[k].idx = 0

\* ------------------------------------------ claims on the end of a stream
\* C34 (as claimed): the chunk written for response.completed is the final
\* chunk: at most one written chunk has a non-null finish_reason, and after
\* it nothing is written but data: [DONE].
C34_FinishIsFinal ==
    Rewriting =>
      /\ Count(out, LAMBDA c : c.finish # "null") <= 1
      /\ \A i, j \in 1 .. Len(out) :
           (out[i].finish # "null" /\ i < j) => IsDone(out[j])

\* ------------------------------------------- claims on reasoning events
IsReasoningEvent(raw) ==
    LET p == Trimmed(raw) IN p.tok = "json" /\ IsReasoningType(p.type)

IsArgsDelta(raw) ==
    LET p == Trimmed(raw)
    IN  p.tok = "json" /\ p.type = "response.function_call_arguments.delta"

\* C37: every written argument-delta chunk carries the index that an earlier
\* written tool-call-start chunk (with an id and the function name)
\* announced for the same upstream item id; an arguments delta for an item id
\* that was never added yields no chunk and leaves the transformer, roleSent
\* included, as it was.
C37_ArgsAfterStart ==
    Rewriting =>
      /\ \A i \in 1 .. Len(out) :
           out[i].kind = "tool_args" =>
             \E j \in 1 .. i - 1 :
               LET a == Trimmed(hist[out[j].src])
               IN  /\ out[j].kind = "tool_start" /\ out[j].idx = out[i].idx
                   /\ a.iid = Trimmed(hist[out[i].src]).iid
                   /\ out[j].call # "" /\ out[j].name = a.name /\ a.name # ""
      /\ \A p \in RewritePayloads :
           (IsArgsDelta(<<p>>) /\ p.iid \notin DOMAIN tr.toolIndexByItemID) =>
             Transform(tr, <<p>>, 0) = Result(<<>>, FALSE, FALSE, tr)

\* C37 witness: an arguments delta came first and was dropped (no chunk of
\* event 1, no role sent by it), the item was added, and a later delta for
\* it was written with the announced index.
C37_Witness ==
    /\ Rewriting
    /\ Len(hist) >= 3 /\ IsArgsDelta(hist[1]) /\ IsFunctionCallAdded(hist[2])
    /\ \A i \in 1 .. Len(out) : out[i].src # 1
    /\ \E i \in 1 .. Len(out) : out[i].kind = "tool_args" /\ out[i].src = 3
    /\ out[1].kind = "role" /\ out[1].src = 2

\* -------------------------------------- claims on the Responses input
\* the upstream input elements made of inbound element i
MadeOf(i) == {k \in 1 .. Len(fnOut[1].input) : fnOut[1].input[k].from = i}

\* out is the inbound element m, its texts at most passed through
\* replaceNames
SameUpToNames(o, m) ==
    /\ o.type = (IF m.map THEN "item" ELSE "raw")
    /\ m.map => /\ o.role = m.role /\ o.content.kind = m.content.kind
                /\ Len(o.content.texts) = Len(m.content.texts)
                /\ \A k \in 1 .. Len(m.content.texts) :
                     o.content.texts[k] \in {m.content.texts[k],
                                             replaceNames(m.content.texts[k])}

\* C32 (as claimed): the Responses transform preserves the caller's input:
\* every non-system element is in the upstream input exactly once, in the
\* same relative order, changed by name sanitization of its text at most,
\* and the only element added is one developer message at the head.
C32_InputPreserved ==
    Transformed("responses") =>
      LET inp == fnOut[1].input
      IN  /\ \A i \in 1 .. Len(fnIn.items) :
               ~IsSystem(fnIn.items[i]) =>
                 /\ Cardinality(MadeOf(i)) = 1
                 /\ \A k \in MadeOf(i) : SameUpToNames(inp[k], fnIn.items[i])
          /\ \A k1, k2 \in 1 .. Len(inp) :
               (k1 < k2 /\ inp[k1].from # 0 /\ inp[k2].from # 0)
                 => inp[k1].from < inp[k2].from
          /\ \A k \in 1 .. Len(inp) :
               inp[k].from = 0 => (k = 1 /\ inp[k].role = "developer")

\* ------------------------------------------ claims on the advertised ids
\* supportedModels: each registry id, and the id followed by "-" and each
\* of its allowed efforts
Advertised ==
    {[id |-> b, base |-> b, effort |-> <<>>] : b \in supportedModelIDs}
      \cup UNION {{[id |-> b \o <<"-">> \o e, base |-> b, effort |-> e] :
                     e \in modelAllowedEfforts(b)} : b \in supportedModelIDs}

\* C40 (as claimed): a request that names an advertised id, and no effort
\* field, is served by that id's base model: normalizeModel returns the
\* base, and for an id with an effort suffix the effort sent upstream is that
\* effort.
C40_AdvertisedRoundTrip ==
    (mode = "effort" /\ fnIn.reasoning_effort = <<>> /\ fnIn.effort = <<>>) =>
      \A a \in Advertised :
        fnIn.model = <<a.id>> =>
          /\ fnOut.norm # <<>> => fnOut.norm[1] = a.base
          /\ \A body \in {fnOut.chat, fnOut.resp} :
               body # <<>> =>
                 /\ body[1].model = a.base
                 /\ a.effort # <<>> => body[1].effort = a.effort

\* ------------------------------------------ claims on the retry's token
\* the step that sends the retry POST
RetryPostStep == Retrying /\ rpc = "post2" /\ Len(postLog') = Len(postLog) + 1

\* C38 (as claimed): the bearer token of the retry POST is the access token
\* persisted by the most recent successful refresh (the one the store holds,
\* written by a refresh) and never the token rejected with 401.
C38_RetryTokenPersisted ==
    [][RetryPostStep =>
         /\ token # postLog[1].token
         /\ token = store.access /\ token \in 1 .. issued]_vars

\* C38 (amended): the bearer token of the retry POST is what the
\* GetCredentials call after the successful forced refresh returned: either
\* the access token that call found in the store or the one of a pair it
\* obtained by refreshing once more, persisted or not; it is not the token
\* rejected with 401 unless POST /admin/credentials wrote to the store
\* between the two POSTs.
C38_RetryTokenFresh ==
    [][RetryPostStep =>
         /\ postLog'[2].token = token /\ token = cs["req"].token
         /\ forceLog = <<TRUE>>
         /\ \/ token = cs["req"].creds.access
            \/ token \in 1 .. issued
         /\ \/ token # postLog[1].token /\ cs["req"].creds.access # postLog[1].token
            \/ \E k \in 1 .. Len(updLog) : updLog[k].by = "admin"]_vars

\* C38 witness: the retry was posted after a successful forced refresh while
\* the background task persisted a refresh of its own between the two POSTs.
C38_Witness ==
    /\ Retrying /\ Len(postLog) = 2 /\ forceLog = <<TRUE>>
    /\ postLog[1].status = 401 /\ postLog[2].token # postLog[1].token
    /\ \E k \in 1 .. Len(updLog) : updLog[k].by = "bg"
    /\ \A k \in 1 .. Len(updLog) : updLog[k].by # "admin"

\* ------------------------------------------------ claims on the startup
\* the fetchers on the target file that were not closed
OpenFetchers == {i \in DOMAIN fnOut.fetchers : ~fnOut.fetchers[i].closed}

\* C39 (as claimed): at any time at most one OAuth fetcher (one mutex, one
\* background task) is refreshing the credentials file: a fetcher created
\* on the file is closed before the next one is created, and no two
\* background tasks are inside a refresh of the file at once.
C39_OneFetcherPerFile ==
    mode = "migrate" =>
      /\ Cardinality(OpenFetchers) <= 1
      /\ Cardinality({i \in OpenFetchers : fnOut.fetchers[i].st = "loaded"}) <= 1

\* maybeMigrateCredentials has returned
Migrated == mode = "migrate" /\ fnOut.pc \in {"main", "serving"}

\* C36: auto-mode migration. With a target file in place the migration
\* reads and writes nothing, and the file is as it was when the migration
\* returns. Otherwise its first step reads the legacy file if that exists
\* and the keychain only if it does not; the pair read is written to the
\* target path; and the migration refreshes at most once, only after a
\* successful write and only when refresh is not disabled.
C36_MigrationSteps ==
    mode = "migrate" =>
      LET mig == fnOut.mig
          expected == IF fnIn.legacy # "absent" THEN "legacy" ELSE "keychain"
      IN  /\ fnIn.targetExists =>
               /\ mig = <<>>
               /\ fnOut.pc \in {"check", "main"} =>
                    store = SourceCreds(SourcePairs.target, fnIn.expiresIn)
          /\ \A k \in 1 .. Len(mig) :
               /\ mig[k].op = "read" => (k = 1 /\ mig[k].what = expected)
               /\ mig[k].op = "write" =>
                    /\ k = 2 /\ mig[1].op = "read" /\ mig[1].ok
                    /\ mig[k].what = (IF expected = "legacy" THEN SourcePairs.legacy
                                      ELSE SourcePairs.keychain)
               /\ mig[k].op = "refresh" =>
                    /\ k = 3 /\ mig[2].op = "write" /\ mig[2].ok
                    /\ ~fnIn.disableRefresh
          /\ (fnOut.pc = "refresh" \/ (fnOut.pc = "main" /\ Len(mig) = 2 /\ mig[2].ok))
               => store = fnOut.src
          /\ (Migrated /\ ~fnIn.targetExists) =>
               /\ Len(mig) >= 1
               /\ mig[1].ok => Len(mig) >= 2
               /\ (Len(mig) >= 2 /\ mig[2].ok /\ ~fnIn.disableRefresh) => Len(mig) = 3

\* C36 witness: no target file, the legacy file read although the keychain
\* is readable too, the pair written and then refreshed once.
C36_Witness ==
    /\ Migrated /\ ~fnIn.targetExists /\ fnIn.legacy = "ok" /\ fnIn.keychain = "ok"
    /\ Len(fnOut.mig) = 3 /\ fnOut.mig[1].what = "legacy"
    /\ fnOut.mig[2].what = SourcePairs.legacy /\ fnOut.mig[3].ok
    /\ fnOut.pc = "main" /\ store.access = 1

=============================================================================
